---- MODULE Spec2Model ----
(***************************************************************************)
(* A model of the SerenityJS plugin repository front end: the list view    *)
(* model (filtering and sorting of the plugin collection), the plugin list *)
(* loaders with their time-boxed cache, the list page and the detail page  *)
(* with its per-resource caches.                                           *)
(*                                                                         *)
(* Encoding conventions                                                    *)
(*   - a JavaScript string is a sequence of one-character strings;         *)
(*   - a nullable value is a sequence of length at most one: Null is <<>>  *)
(*     and Some(x) is <<x>> (so the empty string and the empty array are   *)
(*     told apart from null);                                              *)
(*   - dates are their getTime() values.                                   *)
(***************************************************************************)
EXTENDS Integers, Sequences, FiniteSets, TLC

VARIABLES
    vPlugins,   \* list view model: the collection handed to the derivation
    vQuery,     \* list view model: the raw "q" URL parameter
    vSort,      \* list view model: the raw "sort" URL parameter
    vOut,       \* list view model: the derived sequences, Null before derivation
    now,        \* the clock, Date.now() in milliseconds
    CACHE,      \* list loader: the module-level array of cached plugins
    lastFetch,  \* list loader: the module-level timestamp of the last fetch
    calls,      \* loader calls that are awaiting a response
    nCalls,     \* number of loader calls started so far
    page,       \* list page: mounted flag, the call of its effect and component state
    lastReturn, \* history: how the most recently completed fetchPlugins call ended
    loads,      \* history: completed fetchPlugins calls that loaded a non-empty collection
    detailReturn, \* history: what the most recently completed fetchPlugin call returned
    dpage,      \* detail page: mounted flag, route key, tab and per-resource state
    dcache,     \* detail page: the module-level per-resource caches
    dreqs,      \* detail page: requests in flight, each with its effect's alive flag
    nVisits,    \* number of detail page visits so far
    nTabs,      \* number of tab selections so far
    link,       \* README rendering: a link or image URL and what resolveUrl makes of it
    hero,       \* detail page header: navigation state, loaded record, displayed fields
    bdetail     \* detail page of the backend design: navigation state and panel state

viewVars == <<vPlugins, vQuery, vSort, vOut>>

loaderVars == <<now, CACHE, lastFetch, calls, nCalls, page, lastReturn, loads, detailReturn>>

detailVars == <<dpage, dcache, dreqs, nVisits, nTabs>>

renderVars == <<link, hero, bdetail>>

vars == <<vPlugins, vQuery, vSort, vOut,
          now, CACHE, lastFetch, calls, nCalls, page, lastReturn, loads, detailReturn,
          dpage, dcache, dreqs, nVisits, nTabs,
          link, hero, bdetail>>

(***************************************************************************)
(* Nullable values                                                         *)
(***************************************************************************)
Null == <<>>

Some(x) == <<x>>

Get(o) == o[1]

(***************************************************************************)
(* Strings                                                                 *)
(***************************************************************************)
\* String.prototype.toLowerCase on one character of the modelled alphabet
LowerChar(c) ==
    CASE c = "A" -> "a"
      [] c = "B" -> "b"
      [] OTHER -> c

toLowerCase(s) == [i \in DOMAIN s |-> LowerChar(s[i])]

\* the characters the regular expression class \s matches
IsSpace(c) == c \in {" ", "\t"}

RECURSIVE trimStart(_)
trimStart(s) ==
    IF s # <<>> /\ IsSpace(Head(s)) THEN trimStart(Tail(s)) ELSE s

RECURSIVE trimEnd(_)
trimEnd(s) ==
    IF s # <<>> /\ IsSpace(s[Len(s)]) THEN trimEnd(SubSeq(s, 1, Len(s) - 1)) ELSE s

\* String.prototype.trim
trim(s) == trimEnd(trimStart(s))

\* q.split(/\s/): every whitespace character is one separator
RECURSIVE splitEach(_, _, _)
splitEach(s, cur, acc) ==
    IF s = <<>> THEN Append(acc, cur)
    ELSE IF IsSpace(Head(s)) THEN splitEach(Tail(s), <<>>, Append(acc, cur))
    ELSE splitEach(Tail(s), Append(cur, Head(s)), acc)

\* q.split(/\s+/): every maximal run of whitespace is one separator
RECURSIVE splitRuns(_, _, _)
splitRuns(s, cur, acc) ==
    IF s = <<>> THEN Append(acc, cur)
    ELSE IF IsSpace(Head(s)) THEN splitRuns(trimStart(s), <<>>, Append(acc, cur))
    ELSE splitRuns(Tail(s), Append(cur, Head(s)), acc)

\* t.replace(/^#/, "")
stripHash(t) == IF t # <<>> /\ Head(t) = "#" THEN Tail(t) ELSE t

\* Array.prototype.join(" ")
RECURSIVE join(_)
join(parts) ==
    IF parts = <<>> THEN <<>>
    ELSE IF Len(parts) = 1 THEN parts[1]
    ELSE parts[1] \o <<" ">> \o join(Tail(parts))

\* String.prototype.includes
includes(h, t) ==
    \E i \in 0..(Len(h) - Len(t)) : SubSeq(h, i + 1, i + Len(t)) = t

(***************************************************************************)
(* Plugin records                                                          *)
(***************************************************************************)
Plugin(id, name, owner, description, keywords, stars, downloads, updated, published, logo) ==
    [id |-> id, name |-> name, owner |-> owner, description |-> description,
     keywords |-> keywords, stars |-> stars, downloads |-> downloads,
     updated |-> updated, published |-> published, logo |-> logo]

(***************************************************************************)
(* List view model: filtering                                              *)
(***************************************************************************)
\* const q = (params.get("q") ?? "").toLowerCase().trim()
queryOf(raw) == trim(toLowerCase(raw))

\* [p.name, p.owner, p.description, ...p.keywords].join(" ").toLowerCase()
haystack(p) ==
    toLowerCase(join(<<p.name, p.owner, p.description>> \o p.keywords))

\* .map((t) => t.replace(/^#/, "").toLowerCase()).filter(Boolean)
termsOf(pieces) ==
    SelectSeq([i \in DOMAIN pieces |-> toLowerCase(stripHash(pieces[i]))],
              LAMBDA t : t # <<>>)

\* a mutation of matchesAll: terms.some in place of terms.every
matchesAny(p, terms) ==
    \E i \in DOMAIN terms : includes(haystack(p), terms[i])

\* terms.every((t) => haystack.includes(t))
matchesAll(p, terms) ==
    \A i \in DOMAIN terms : includes(haystack(p), terms[i])

\* the body shared by the two versions of the "filtered" memo
filterWith(plugins, q, pieces) ==
    IF plugins = Null THEN <<>>
    ELSE IF q = <<>> THEN Get(plugins)
    ELSE IF termsOf(pieces) = <<>> THEN Get(plugins)
    ELSE SelectSeq(Get(plugins), LAMBDA p : matchesAll(p, termsOf(pieces)))

\* Plugins.filtered of the later list page (split on /\s/)
filteredHome(plugins, raw) ==
    filterWith(plugins, queryOf(raw), splitEach(queryOf(raw), <<>>, <<>>))

\* Plugins.filtered of the earlier list page (split on /\s+/)
filteredClient(plugins, raw) ==
    filterWith(plugins, queryOf(raw), splitRuns(queryOf(raw), <<>>, <<>>))

(***************************************************************************)
(* List view model: sorting                                                *)
(***************************************************************************)
\* (x ?? 0) for a count that may be absent
orZero(c) == IF c = Null THEN 0 ELSE Get(c)

\* primary collation weight of a character: punctuation before letters,
\* letters without regard to case
CharRank(c) ==
    CASE c = "\t" -> 0
      [] c = " " -> 1
      [] c = "#" -> 2
      [] LowerChar(c) = "a" -> 3
      [] LowerChar(c) = "b" -> 4
      [] OTHER -> 5

\* tertiary collation weight: a lower-case letter before its upper-case form
CaseRank(c) == IF LowerChar(c) = c THEN 0 ELSE 1

RECURSIVE compareBy(_, _, _)
compareBy(a, b, level) ==
    IF a = <<>> /\ b = <<>> THEN 0
    ELSE IF a = <<>> THEN -1
    ELSE IF b = <<>> THEN 1
    ELSE LET wa == IF level = 1 THEN CharRank(Head(a)) ELSE CaseRank(Head(a))
             wb == IF level = 1 THEN CharRank(Head(b)) ELSE CaseRank(Head(b))
         IN  IF wa < wb THEN -1
             ELSE IF wa > wb THEN 1
             ELSE compareBy(Tail(a), Tail(b), level)

\* String.prototype.localeCompare under the default collation
localeCompare(a, b) ==
    IF compareBy(a, b, 1) # 0 THEN compareBy(a, b, 1) ELSE compareBy(a, b, 2)

\* a mutation of compareClientDownloads: the download difference taken as a - b
compareClientDownloadsAscending(a, b) ==
    LET diff == orZero(a.downloads) - orZero(b.downloads)
        starDiff == orZero(b.stars) - orZero(a.stars)
    IN  IF diff # 0 THEN diff
        ELSE IF starDiff # 0 THEN starDiff
        ELSE localeCompare(a.name, b.name)

\* the comparator of the earlier list page for sort === "downloads"
compareClientDownloads(a, b) ==
    LET diff == orZero(b.downloads) - orZero(a.downloads)
        starDiff == orZero(b.stars) - orZero(a.stars)
    IN  IF diff # 0 THEN diff
        ELSE IF starDiff # 0 THEN starDiff
        ELSE localeCompare(a.name, b.name)

\* the comparator of the earlier list page for every other sort key
compareClientStars(a, b) ==
    LET diff == orZero(b.stars) - orZero(a.stars)
        dlDiff == orZero(b.downloads) - orZero(a.downloads)
    IN  IF diff # 0 THEN diff
        ELSE IF dlDiff # 0 THEN dlDiff
        ELSE localeCompare(a.name, b.name)

\* the "Fallback sorting" tail of the later list page's comparator
compareFallback(a, b) ==
    LET dateDiff == b.updated - a.updated
        starDiff == orZero(b.stars) - orZero(a.stars)
    IN  IF dateDiff # 0 THEN dateDiff
        ELSE IF starDiff # 0 THEN starDiff
        ELSE localeCompare(a.name, b.name)

\* the comparator of the later list page: switch (sort) { ... } then the fallback
compareHome(sort, a, b) ==
    LET dateDiff == b.updated - a.updated
        downloadDiff == orZero(b.downloads) - orZero(a.downloads)
        starDiff == orZero(b.stars) - orZero(a.stars)
    IN  CASE sort = "downloads" ->
               IF downloadDiff # 0 THEN downloadDiff ELSE compareFallback(a, b)
          [] sort = "stars" ->
               IF starDiff # 0 THEN starDiff ELSE compareFallback(a, b)
          [] sort = "published" -> b.published - a.published
          [] OTHER ->
               IF dateDiff # 0 THEN dateDiff ELSE compareFallback(a, b)

\* the comparator a version of the list page passes to list.sort
compare(version, sort, a, b) ==
    IF version = "home" THEN compareHome(sort, a, b)
    ELSE IF sort = "downloads" THEN compareClientDownloads(a, b)
    ELSE compareClientStars(a, b)

\* x put behind every element of the sorted run that does not compare after it
RECURSIVE insertSorted(_, _, _, _)
insertSorted(x, run, version, sort) ==
    IF run = <<>> THEN <<x>>
    ELSE IF compare(version, sort, Head(run), x) > 0 THEN <<x>> \o run
    ELSE <<Head(run)>> \o insertSorted(x, Tail(run), version, sort)

\* Array.prototype.sort is stable: equal elements keep their input order
RECURSIVE sortFrom(_, _, _, _)
sortFrom(list, run, version, sort) ==
    IF list = <<>> THEN run
    ELSE sortFrom(Tail(list), insertSorted(Head(list), run, version, sort), version, sort)

\* toLowerCase on the values of the "sort" parameter the model draws
lowerKey(k) ==
    CASE k = "Downloads" -> "downloads"
      [] k = "STARS" -> "stars"
      [] OTHER -> k

\* const sort = (params.get("sort") ?? "stars").toLowerCase()
sortKeyOf(raw) == lowerKey(IF raw = Null THEN "stars" ELSE Get(raw))

\* Plugins.sorted: const list = [...filtered]; list.sort(...)
sorted(filtered, version, rawSort) ==
    sortFrom(filtered, <<>>, version, sortKeyOf(rawSort))

\* a "sorted" memo that sorts the array of "filtered" itself
sortMemoInPlace(filtered, version, rawSort) ==
    [list |-> sorted(filtered, version, rawSort),
     input |-> sorted(filtered, version, rawSort)]

\* the "sorted" memo on arrays: list is a copy ([...filtered]) and sort works
\* in place on it; "input" is what the array of "filtered" holds afterwards
sortMemo(filtered, version, rawSort) ==
    [list |-> sorted(filtered, version, rawSort),
     input |-> filtered]

\* the "filtered" memo returns the plugins array itself, not a new array
returnsInput(plugins, q, pieces) ==
    /\ plugins # Null
    /\ (q = <<>> \/ termsOf(pieces) = <<>>)

\* what a version of the list page derives from its collection and parameters
deriveView(version, plugins, rawQuery, rawSort) ==
    LET f == IF version = "home" THEN filteredHome(plugins, rawQuery)
             ELSE filteredClient(plugins, rawQuery)
    IN  [filtered |-> f, sorted |-> sortMemo(f, version, rawSort).list]

\* the plugins state (the array the loader returned) after a render of a version
pluginsAfter(version, plugins, rawQuery, rawSort) ==
    LET q == queryOf(rawQuery)
        pieces == IF version = "home" THEN splitEach(q, <<>>, <<>>)
                  ELSE splitRuns(q, <<>>, <<>>)
    IN  IF returnsInput(plugins, q, pieces)
        THEN Some(sortMemo(Get(plugins), version, rawSort).input)
        ELSE plugins

(***************************************************************************)
(* Inputs of the list view model                                           *)
(***************************************************************************)
MaxQueryLen == 3

MaxFilterLen == 1

MaxSortLen == 2

QueryAlphabet == {"a", "B", "#", " "}

SeqsUpTo(S, n) == UNION {[1..k -> S] : k \in 0..n}

Queries == SeqsUpTo(QueryAlphabet, MaxQueryLen)

Counts == {Null, Some(5), Some(10)}

\* first release date and latest release date: published is never after updated
Dates == {d \in (1..2) \X (1..2) : d[1] <= d[2]}

SortNames == {<<"a">>, <<"b">>}

RawSorts == {Null, Some("stars"), Some("Downloads"), Some("published"), Some("updated")}

Versions == {"home", "client"}

\* plugin profiles that differ in the sort keys only
SortProfiles ==
    {Plugin(0, n, <<"o">>, <<>>, <<>>, s, d, dt[2], dt[1], "logo") :
        n \in SortNames, s \in Counts, d \in Counts, dt \in Dates}

\* plugin profiles that differ in the searched text only
TextProfiles ==
    {Plugin(0, n, o, d, k, Some(5), Some(5), 1, 1, "logo") :
        n \in {<<"a">>, <<"B">>},
        o \in {<<"a">>, <<"b">>},
        d \in {<<>>, <<"B", " ", "#">>},
        k \in {<<>>, << <<"#", "a">>, <<"b">> >>}}

\* a collection: the i-th plugin has id i
Collections(profiles, n) ==
    {[i \in DOMAIN c |-> [c[i] EXCEPT !.id = i]] : c \in SeqsUpTo(profiles, n)}

(***************************************************************************)
(* The list view model as a state machine                                  *)
(***************************************************************************)
StartTime == 1000000

\* the list page before it is mounted: useState(null), useState(true), useState(null)
PageUnmounted ==
    [mounted |-> FALSE, call |-> 0, plugins |-> Null, loading |-> TRUE,
     error |-> Null, outcome |-> "none"]

\* the resources the detail page fetches, one effect and one cache each
Resources == {"repo", "readme", "releases", "commits", "gallery", "latest", "contributors"}

\* the tab whose selection triggers a lazily fetched resource
LazyTab ==
    [readme |-> "readme", gallery |-> "gallery", releases |-> "versions",
     commits |-> "changelog"]

LazyResources == DOMAIN LazyTab

\* route keys `${owner}/${name}`
Keys == {"o/a"}

\* the detail page before it is mounted
DetailUnmounted ==
    [mounted |-> FALSE, key |-> "", tab |-> "readme",
     val |-> [r \in Resources |-> Null],
     loading |-> [r \in Resources |-> FALSE],
     err |-> [r \in Resources |-> Null]]

\* module load: the seven caches are empty Maps
DetailIdle ==
    /\ dpage = DetailUnmounted
    /\ dcache = [r \in Resources |-> [k \in Keys |-> Null]]
    /\ dreqs = {}
    /\ nVisits = 0
    /\ nTabs = 0

\* module load: const CACHE = []; let lastFetch = 0
LoaderIdle ==
    /\ now = StartTime
    /\ CACHE = <<>>
    /\ lastFetch = 0
    /\ calls = {}
    /\ nCalls = 0
    /\ page = PageUnmounted
    /\ lastReturn = Null
    /\ loads = {}
    /\ detailReturn = Null

ViewIdle ==
    /\ vPlugins = Null
    /\ vQuery = <<>>
    /\ vSort = Null
    /\ vOut = Null

\* no detail page has been rendered
RenderIdle ==
    /\ link = Null
    /\ hero = Null
    /\ bdetail = Null

InitFilter ==
    /\ LoaderIdle
    /\ DetailIdle
    /\ RenderIdle
    /\ vPlugins \in {Some(c) : c \in Collections(TextProfiles, MaxFilterLen)}
    /\ vQuery \in Queries
    /\ vSort = Null
    /\ vOut = Null

InitSort ==
    /\ LoaderIdle
    /\ DetailIdle
    /\ RenderIdle
    /\ vPlugins \in {Some(c) : c \in Collections(SortProfiles, MaxSortLen)}
    /\ vQuery = <<>>
    /\ vSort \in RawSorts
    /\ vOut = Null

\* a render of the list page with the URL parameters q and sort: the
\* "filtered" and "sorted" memos are computed
rendered(q, sort) ==
    /\ vOut' = Some([v \in Versions |-> deriveView(v, vPlugins, q, sort)])
    /\ vPlugins' \in {pluginsAfter(v, vPlugins, q, sort) : v \in Versions}

\* the first render of the list page with its collection
Derive ==
    /\ vOut = Null
    /\ rendered(vQuery, vSort)
    /\ UNCHANGED <<vQuery, vSort>>
    /\ UNCHANGED <<loaderVars, detailVars, renderVars>>

\* the texts typed into the search box
SearchInputs == {<<>>, <<"a">>, <<"B">>}

\* the option values of the sort select
SortInputs == {"stars", "downloads"}

\* Navbar.onSearchChange: q is set to the text of the search box, or deleted
\* when the text is empty (an absent q reads as ""); the page renders again
onSearchChange(v) ==
    /\ vOut # Null
    /\ vQuery' = v
    /\ rendered(v, vSort)
    /\ UNCHANGED vSort
    /\ UNCHANGED <<loaderVars, detailVars, renderVars>>

\* Navbar.onSortChange: sort is set to the selected value, or deleted when
\* the value is empty; the page renders again
onSortChange(v) ==
    /\ vOut # Null
    /\ vSort' = (IF v = "" THEN Null ELSE Some(v))
    /\ rendered(vQuery, IF v = "" THEN Null ELSE Some(v))
    /\ UNCHANGED vQuery
    /\ UNCHANGED <<loaderVars, detailVars, renderVars>>

NextView ==
    \/ Derive
    \/ \E v \in SearchInputs : onSearchChange(v)
    \/ \E v \in SortInputs : onSortChange(v)

SpecFilter == InitFilter /\ [][NextView]_vars

SpecSort == InitSort /\ [][NextView]_vars

(***************************************************************************)
(* Vocabulary of the list view claims                                      *)
(***************************************************************************)
\* the maximal runs of non-whitespace characters of a string
WordsOf(s) ==
    {SubSeq(s, i, j) : <<i, j>> \in
        {w \in (1..Len(s)) \X (1..Len(s)) :
            /\ w[1] <= w[2]
            /\ \A k \in w[1]..w[2] : ~IsSpace(s[k])
            /\ (w[1] = 1 \/ IsSpace(s[w[1] - 1]))
            /\ (w[2] = Len(s) \/ IsSpace(s[w[2] + 1]))}}

\* the query's terms: lowercased words, one leading "#" removed, empty ones dropped
ClaimTerms(raw) ==
    {IF w[1] = "#" THEN SubSeq(w, 2, Len(w)) ELSE w :
        w \in WordsOf([i \in DOMAIN raw |-> LowerChar(raw[i])])} \ {<<>>}

RECURSIVE SpaceJoined(_)
SpaceJoined(parts) ==
    IF Len(parts) = 0 THEN <<>>
    ELSE IF Len(parts) = 1 THEN parts[1]
    ELSE SpaceJoined(SubSeq(parts, 1, Len(parts) - 1)) \o <<" ">> \o parts[Len(parts)]

\* the lowercased space-joined text of name, owner, description and keywords
ClaimText(p) ==
    LET t == SpaceJoined(<<p.name, p.owner, p.description>> \o p.keywords)
    IN  [i \in DOMAIN t |-> LowerChar(t[i])]

IsSubstring(t, h) ==
    \E i \in 1..Len(h) : \E j \in i..Len(h) : SubSeq(h, i, j) = t

ClaimMatches(p, raw) == \A t \in ClaimTerms(raw) : IsSubstring(t, ClaimText(p))

CountOf(c) == IF c = <<>> THEN 0 ELSE c[1]

NonIncreasing(list, key(_)) ==
    \A i, j \in DOMAIN list : i < j => key(list[i]) >= key(list[j])

\* -1, 0 or 1 as the key tuple k1 sorts before, with or after k2
RECURSIVE LexCompare(_, _)
LexCompare(k1, k2) ==
    IF k1 = <<>> THEN 0
    ELSE IF Head(k1) < Head(k2) THEN -1
    ELSE IF Head(k1) > Head(k2) THEN 1
    ELSE LexCompare(Tail(k1), Tail(k2))

NameRank(n) == IF n = <<"a">> THEN 1 ELSE 2

\* every two plugins of the list with the same primary key stand in the order of tie(_)
TiesOrderedBy(list, primary(_), tie(_)) ==
    \A i, j \in DOMAIN list :
        (i < j /\ primary(list[i]) = primary(list[j]))
            => LexCompare(tie(list[i]), tie(list[j])) <= 0

Derived(v) == Get(vOut)[v]

Reorderings(list) ==
    {[i \in DOMAIN list |-> list[f[i]]] :
        f \in {g \in [DOMAIN list -> DOMAIN list] :
                  \A a, b \in DOMAIN list : a # b => g[a] # g[b]}}

(***************************************************************************)
(* C4. For every collection and query, the filtered result is exactly the  *)
(* plugins, in collection order, for which every term of the query (the    *)
(* query lowercased, split on whitespace, one leading "#" stripped, empty  *)
(* terms dropped) is a substring of the lowercased space-joined text of    *)
(* name, owner, description and keywords; with no term left it is the      *)
(* whole collection.  Both versions of the list page.                      *)
(***************************************************************************)
C4_FilterIsExactlyTheMatches ==
    vOut # Null =>
        \A v \in Versions :
            Derived(v).filtered =
                SelectSeq(Get(vPlugins), LAMBDA p : ClaimMatches(p, vQuery))

C4_Witness ==
    /\ vOut # Null
    /\ Cardinality(ClaimTerms(vQuery)) = 2
    /\ Len(Get(vPlugins)) = 1
    /\ \E v \in Versions : Derived(v).filtered = Get(vPlugins)

(***************************************************************************)
(* C5. With sort key "stars" the output is in non-increasing star count    *)
(* and with sort key "downloads" in non-increasing download count, an      *)
(* absent count taken as 0; so A (stars 10, downloads 5) and B (stars 5,   *)
(* downloads 10) come out B, A by downloads and A, B by stars.             *)
(***************************************************************************)
C5_PrimaryKeyDescending ==
    vOut # Null =>
        \A v \in Versions :
            /\ sortKeyOf(vSort) = "stars" =>
                   NonIncreasing(Derived(v).sorted, LAMBDA p : CountOf(p.stars))
            /\ sortKeyOf(vSort) = "downloads" =>
                   NonIncreasing(Derived(v).sorted, LAMBDA p : CountOf(p.downloads))

C5_Witness ==
    /\ vOut # Null
    /\ vSort = Some("Downloads")
    /\ Len(Get(vPlugins)) = 2
    /\ Get(vPlugins)[1].stars = Some(10) /\ Get(vPlugins)[1].downloads = Some(5)
    /\ Get(vPlugins)[2].stars = Some(5) /\ Get(vPlugins)[2].downloads = Some(10)
    /\ \A v \in Versions :
           Derived(v).sorted = <<Get(vPlugins)[2], Get(vPlugins)[1]>>

(***************************************************************************)
(* C6 as claimed. In every version of the list view, plugins with equal    *)
(* star count are ordered by download count descending then name           *)
(* ascending when sorting by stars, and plugins with equal download count  *)
(* by star count descending then name ascending when sorting by downloads. *)
(***************************************************************************)
C6_TiesByOtherMetricEverywhere ==
    vOut # Null =>
        \A v \in Versions :
            /\ sortKeyOf(vSort) = "stars" =>
                   TiesOrderedBy(Derived(v).sorted,
                                 LAMBDA p : CountOf(p.stars),
                                 LAMBDA p : <<0 - CountOf(p.downloads), NameRank(p.name)>>)
            /\ sortKeyOf(vSort) = "downloads" =>
                   TiesOrderedBy(Derived(v).sorted,
                                 LAMBDA p : CountOf(p.downloads),
                                 LAMBDA p : <<0 - CountOf(p.stars), NameRank(p.name)>>)

(***************************************************************************)
(* C7 as claimed. In the later list page, for the sort keys "updated" and  *)
(* "published", plugins equal on the primary date are ordered by update    *)
(* date descending, then star count descending, then name ascending; so    *)
(* every ordering of a collection in which no two plugins agree on all of  *)
(* these keys gives the same output.                                       *)
(***************************************************************************)
C7_DateTiesFollowCascade ==
    (vOut # Null /\ sortKeyOf(vSort) \in {"updated", "published"}) =>
        LET primary(p) == IF sortKeyOf(vSort) = "published" THEN p.published ELSE p.updated
            keys(p) == <<0 - primary(p), 0 - p.updated, 0 - CountOf(p.stars), NameRank(p.name)>>
            list == Derived("home").filtered
        IN  /\ TiesOrderedBy(Derived("home").sorted, primary,
                             LAMBDA p : <<0 - p.updated, 0 - CountOf(p.stars), NameRank(p.name)>>)
            /\ (\A i, j \in DOMAIN list : i # j => keys(list[i]) # keys(list[j]))
                   => \A other \in Reorderings(list) :
                          sorted(other, "home", vSort) = Derived("home").sorted

(***************************************************************************)
(* The plugin list loaders and the list page                               *)
(***************************************************************************)
MaxTicks == 2

TickMs == 150000

MaxCalls == 3

MaxId == 2

\* const CACHE_DURATION = 5 * 60 * 1000
CACHE_DURATION == 5 * 60 * 1000

\* a plugin record as a loader sees it: an id and a value that upstream may change
LoaderPlugin(id, stars) ==
    Plugin(id, <<"a">>, <<"o">>, <<>>, <<>>, Some(stars), Some(5), 1, 1, "logo")

\* the star counts upstream reports for a plugin: those of plugin 1 change over time
StarsOf(id) == IF id = 1 THEN {5, 10} ELSE {5}

LoaderPlugins == {LoaderPlugin(id, st) : id \in 1..MaxId, st \in {5, 10}}

\* the collections upstream can answer with: at most one record per id
UpstreamCollections ==
    {c \in SeqsUpTo(LoaderPlugins, MaxId) :
        /\ \A i, j \in DOMAIN c : i # j => c[i].id # c[j].id
        /\ \A i \in DOMAIN c : Get(c[i].stars) \in StarsOf(c[i].id)}

\* the ways the backend's collection request can end
ListResponses ==
    {[kind |-> "ok", body |-> b] : b \in UpstreamCollections}
        \cup {[kind |-> k, body |-> <<>>] : k \in {"status", "network", "badjson"}}

\* the ways the backend's per-plugin request can end
DetailResponses(id) ==
    {[kind |-> "ok", body |-> LoaderPlugin(id, st)] : st \in StarsOf(id)}
        \cup {[kind |-> k, body |-> LoaderPlugin(id, 5)] : k \in {"status", "network", "badjson"}}

\* now - lastFetch < CACHE_DURATION && CACHE.length > 0
cacheValid(t) == t - lastFetch < CACHE_DURATION /\ Len(CACHE) > 0

\* a loader call that awaits its response
Call(fn, arg, prior) ==
    [n |-> nCalls + 1, fn |-> fn, at |-> now, arg |-> arg,
     prior |-> prior, phase |-> "search", items |-> <<>>, total |-> 0, i |-> 0,
     stage |-> 1, acc |-> <<>>, fates |-> <<>>]

\* the effect's "alive" flag of the list page instance that made the call
alive(c) == page.mounted /\ page.call = c.n

\* the completed loads a call made now would be less than CACHE_DURATION after
recentLoads == {l \in loads : now - l.at < CACHE_DURATION}

\* err?.message ?? "Failed to load plugins." for the error a call threw: the
\* TypeError of a rejected fetch, the SyntaxError of JSON.parse, the TypeError
\* of reading full_name of a missing item
messageOf(outcome) ==
    CASE outcome = "network" -> "Failed to fetch"
      [] outcome = "badjson" ->
            "Unexpected token '<', \"<html>not \"... is not valid JSON"
      [] outcome = "missing" ->
            "Cannot read properties of undefined (reading 'full_name')"
      [] OTHER -> "Failed to load plugins."

\* the plugins state of a page that was served from the cache is the CACHE
\* array itself: what the loader writes into the array, the page holds
pageAfterCacheWrite(pg, cache) ==
    IF pg.mounted /\ pg.outcome = "cached" /\ pg.plugins # Null
    THEN [pg EXCEPT !.plugins = Some(cache)]
    ELSE pg

\* an effect whose setLoading(false) is skipped when fetchPlugins throws
pageAfterLoadWithoutFinally(pg, isAlive, threw, value, outcome) ==
    IF ~isAlive THEN pg
    ELSE IF threw
        THEN [pg EXCEPT !.error = Some(messageOf(outcome)), !.plugins = Null,
                        !.outcome = outcome]
        ELSE [pg EXCEPT !.plugins = Some(IF value = Null THEN <<>> ELSE Get(value)),
                        !.loading = FALSE, !.outcome = outcome]

\* the list page's effect after "await fetchPlugins()": try / catch / finally
pageAfterLoad(pg, isAlive, threw, value, outcome) ==
    IF ~isAlive THEN pg
    ELSE IF threw
        THEN [pg EXCEPT !.error = Some(messageOf(outcome)), !.plugins = Null,
                        !.loading = FALSE, !.outcome = outcome]
        ELSE [pg EXCEPT !.plugins = Some(IF value = Null THEN <<>> ELSE Get(value)),
                        !.loading = FALSE, !.outcome = outcome]

\* the list page right after mounting, when its effect has set loading and error
PageMounted ==
    [mounted |-> TRUE, call |-> nCalls + 1, plugins |-> Null, loading |-> TRUE,
     error |-> Null, outcome |-> "none"]

\* which of its three returns the list page renders
pageView(pg) ==
    IF pg.loading THEN "loading"
    ELSE IF pg.error # Null \/ pg.plugins = Null THEN "error"
    ELSE "list"

NoFanOut == [searched |-> FALSE, items |-> <<>>, total |-> 0, fates |-> <<>>]

Returned(network, threw, value, prior, fanout) ==
    Some([network |-> network, threw |-> threw, value |-> value,
          prior |-> {l.value : l \in prior}, fanout |-> fanout])

\* the router shows another route: the list page is unmounted and its
\* effect's cleanup clears the alive flag
pageLeft(pg) == [pg EXCEPT !.mounted = FALSE]

\* the router shows another route than the backend design's detail page
backendDetailsLeft(bd) ==
    IF bd = Null THEN bd ELSE Some([Get(bd) EXCEPT !.mounted = FALSE])

\* the router shows another route than the detail page: a mounted detail
\* page is unmounted and the cleanup of every effect runs
detailsLeft ==
    /\ dpage' = IF dpage.mounted THEN DetailUnmounted ELSE dpage
    /\ dreqs' = IF dpage.mounted
                THEN {[q EXCEPT !.alive = FALSE] : q \in dreqs} ELSE dreqs
    /\ bdetail' = backendDetailsLeft(bdetail)
    /\ UNCHANGED <<dcache, nVisits, nTabs, link, hero>>

\* time passes
Tick ==
    /\ now < StartTime + MaxTicks * TickMs
    /\ now' = now + TickMs
    /\ loads' = {l \in loads : now' - l.at < CACHE_DURATION}
    /\ UNCHANGED <<CACHE, lastFetch, calls, nCalls, page, lastReturn, detailReturn>>
    /\ UNCHANGED <<viewVars, detailVars, renderVars>>

\* the list page is left: the effect's cleanup clears its alive flag
UnmountPlugins ==
    /\ page.mounted
    /\ page' = [page EXCEPT !.mounted = FALSE]
    /\ UNCHANGED <<now, CACHE, lastFetch, calls, nCalls, lastReturn, loads, detailReturn>>
    /\ UNCHANGED <<viewVars, detailVars, renderVars>>

\* the list page is rendered, as one of at most "most" loader calls, and its
\* effect calls the backend design's fetchPlugins
mountedBackend(most) ==
    /\ nCalls < most
    /\ nCalls' = nCalls + 1
    /\ IF cacheValid(now)
       THEN /\ page' = pageAfterLoad(PageMounted, TRUE, FALSE, Some(CACHE), "cached")
            /\ lastReturn' = Returned(FALSE, FALSE, Some(CACHE), recentLoads, NoFanOut)
            /\ UNCHANGED calls
       ELSE /\ page' = PageMounted
            /\ calls' = calls \cup {Call("fetchPlugins", 0, recentLoads)}
            /\ UNCHANGED lastReturn
    /\ UNCHANGED <<now, CACHE, lastFetch, loads, detailReturn>>

\* the router shows /plugins, by a link or by the navigate call of the detail
\* page's effect: a detail page that was shown is unmounted, the list page
\* mounts
MountPluginsBackend ==
    /\ ~page.mounted
    /\ mountedBackend(MaxCalls)
    /\ detailsLeft
    /\ UNCHANGED viewVars

\* the backend answers the collection request of call c
fetchPluginsResponse(c, resp) ==
    /\ c.fn = "fetchPlugins"
    /\ LET ok == resp.kind = "ok"
           ret == IF ok THEN Some(resp.body) ELSE Null
       IN  /\ lastFetch' = IF ok THEN c.at ELSE lastFetch
           /\ CACHE' = IF ok THEN resp.body ELSE CACHE
           /\ page' = pageAfterCacheWrite(
                          pageAfterLoad(page, alive(c), FALSE, ret, resp.kind), CACHE')
           /\ lastReturn' = Returned(TRUE, FALSE, ret, c.prior, NoFanOut)
           /\ loads' = IF ok /\ resp.body # <<>>
                       THEN loads \cup {[at |-> c.at, value |-> resp.body]}
                       ELSE loads
    /\ calls' = calls \ {c}
    /\ UNCHANGED <<now, nCalls, detailReturn>>
    /\ UNCHANGED <<viewVars, detailVars, renderVars>>

\* CACHE.find((x) => x.id === id)
findById(cache, id) ==
    cache[CHOOSE k \in DOMAIN cache :
              cache[k].id = id /\ \A j \in 1..(k - 1) : cache[j].id # id]

\* const index = CACHE.indexOf(plugin); if (index) CACHE.slice(index, 1); CACHE.push(plugin)
\* the record parsed from the response is a new object, so indexOf is -1, and
\* slice copies without changing CACHE
addToCache(cache, plugin) ==
    LET index == -1
    IN  IF index # 0 THEN Append(cache, plugin) ELSE Append(cache, plugin)

\* fetchPlugin(id) answers from CACHE without a request
servedFromCache(id) ==
    cacheValid(now) /\ \E k \in DOMAIN CACHE : CACHE[k].id = id

\* fetchPlugin(id) up to its first await
fetchPluginStart(id) ==
    /\ nCalls < MaxCalls
    /\ nCalls' = nCalls + 1
    /\ IF servedFromCache(id)
       THEN /\ detailReturn' = Some(Some(findById(CACHE, id)))
            /\ UNCHANGED calls
       ELSE /\ calls' = calls \cup {Call("fetchPlugin", id, {})}
            /\ UNCHANGED detailReturn
    /\ UNCHANGED <<now, CACHE, lastFetch, lastReturn, loads>>

\* fetchPlugin(id) is called
fetchPluginCall(id) ==
    /\ fetchPluginStart(id)
    /\ UNCHANGED page
    /\ UNCHANGED <<viewVars, detailVars, renderVars>>

\* the rest of fetchPlugin once the backend has answered the request of call c
fetchPluginSettle(c, resp) ==
    /\ c.fn = "fetchPlugin"
    /\ IF resp.kind = "ok"
       THEN /\ CACHE' = addToCache(CACHE, resp.body)
            /\ detailReturn' = Some(Some(resp.body))
       ELSE /\ detailReturn' = Some(Null)
            /\ UNCHANGED CACHE
    /\ page' = pageAfterCacheWrite(page, CACHE')
    /\ calls' = calls \ {c}
    /\ UNCHANGED <<now, lastFetch, nCalls, lastReturn, loads>>

\* the backend answers the per-plugin request of call c
fetchPluginResponse(c, resp) ==
    /\ fetchPluginSettle(c, resp)
    /\ UNCHANGED <<viewVars, detailVars, renderVars>>

InitLoader == LoaderIdle /\ ViewIdle /\ DetailIdle /\ RenderIdle

NextBackend ==
    \/ Tick
    \/ UnmountPlugins
    \/ MountPluginsBackend
    \/ \E c \in calls : \E resp \in ListResponses : fetchPluginsResponse(c, resp)
    \/ \E id \in 1..MaxId : fetchPluginCall(id)
    \/ \E c \in calls : \E resp \in DetailResponses(c.arg) : fetchPluginResponse(c, resp)

SpecBackend == InitLoader /\ [][NextBackend]_vars

(***************************************************************************)
(* C1 as claimed. A fetchPlugins call made less than CACHE_DURATION after  *)
(* an earlier, completed fetchPlugins call that loaded a non-empty         *)
(* collection issues no network request and returns exactly the collection *)
(* that earlier call returned, whatever fetchPlugin calls came in between. *)
(***************************************************************************)
C1_RecallWithinWindowServedUnchanged ==
    lastReturn # Null =>
        \A earlier \in Get(lastReturn).prior :
            /\ ~Get(lastReturn).network
            /\ Get(lastReturn).value = Some(earlier)

(***************************************************************************)
(* C2 as claimed. When the primary collection request returns a            *)
(* non-success HTTP status, the list page holds a null collection and      *)
(* shows its "Failed to load plugins" view, not a list.                    *)
(***************************************************************************)
C2_HttpErrorShowsErrorState ==
    (page.mounted /\ page.outcome = "status") =>
        /\ page.plugins = Null
        /\ pageView(page) = "error"

(***************************************************************************)
(* The list loader of the direct source-host design                        *)
(***************************************************************************)
MaxDirectCalls == 2
MaxInFlight == 1

\* how the three requests for one candidate repository can end
Fates ==
    {"ok", "logo-status",
     "manifest-status", "manifest-network", "manifest-badjson",
     "releases-status", "releases-network", "releases-badjson", "releases-empty",
     "logo-network"}

\* the ways the search request can end; total_count may exceed the returned page
SearchResponses ==
    {[kind |-> "ok", items |-> b, total |-> t] :
        b \in {u \in UpstreamCollections : \A k \in DOMAIN u : u[k].stars = Some(5)},
        t \in 0..(MaxId + 1)}
        \cup {[kind |-> k, items |-> <<>>, total |-> 0] :
                k \in {"status", "network", "badjson"}}

\* a loop body that lacks the "releases.length <= 0" test
itemOutcomeListingUnreleased(fate) ==
    CASE fate \in {"manifest-status", "releases-status"} -> "skip"
      [] fate \in {"manifest-network", "manifest-badjson", "releases-network",
                   "releases-badjson", "logo-network"} -> "throw"
      [] OTHER -> "push"

\* one pass of the loop body for a candidate: "skip" (continue), "push" or "throw"
itemOutcome(fate) ==
    CASE fate \in {"manifest-status", "releases-status", "releases-empty"} -> "skip"
      [] fate \in {"manifest-network", "manifest-badjson", "releases-network",
                   "releases-badjson", "logo-network"} -> "throw"
      [] OTHER -> "push"

\* const plugin: Plugin = { id: repo.id, ..., stars: repo.stargazers_count, ..., logo }
pluginOf(repo, fate) ==
    [repo EXCEPT !.logo = IF fate = "logo-status" THEN "placeholder" ELSE "logo"]

\* for (const plugin of plugins) if (!CACHE.find(p => p.id === plugin.id)) CACHE.push(plugin)
RECURSIVE mergeIntoCache(_, _)
mergeIntoCache(cache, plugins) ==
    IF plugins = <<>> THEN cache
    ELSE mergeIntoCache(
             IF \E k \in DOMAIN cache : cache[k].id = Head(plugins).id
             THEN cache ELSE Append(cache, Head(plugins)),
             Tail(plugins))

FanOut(c, fates) ==
    [searched |-> TRUE, items |-> c.items, total |-> c.total, fates |-> fates]

\* the loop is over: the cache is updated and the plugins are returned
finishWithList(c, plugins, fanout) ==
    /\ CACHE' = mergeIntoCache(CACHE, plugins)
    /\ page' = pageAfterCacheWrite(
                   pageAfterLoad(page, alive(c), FALSE, Some(plugins), "ok"), CACHE')
    /\ lastReturn' = Returned(TRUE, FALSE, Some(plugins), c.prior, fanout)
    /\ calls' = calls \ {c}
    /\ loads' = IF plugins # <<>>
                THEN loads \cup {[at |-> c.at, value |-> plugins]}
                ELSE loads

\* an await inside fetchPlugins rejected: the promise the page awaits rejects
finishWithThrow(c, outcome, fanout) ==
    /\ page' = pageAfterLoad(page, alive(c), TRUE, Null, outcome)
    /\ lastReturn' = Returned(TRUE, TRUE, Null, c.prior, fanout)
    /\ calls' = calls \ {c}
    /\ UNCHANGED <<CACHE, loads>>

\* the list page mounts, as one of at most "most" mounts, and its effect
\* calls the direct design's fetchPlugins
MountDirectWithin(most) ==
    /\ ~page.mounted
    /\ nCalls < most
    /\ cacheValid(now) \/ Cardinality(calls) < MaxInFlight
    /\ nCalls' = nCalls + 1
    /\ IF cacheValid(now)
       THEN /\ page' = pageAfterLoad(PageMounted, TRUE, FALSE, Some(CACHE), "cached")
            /\ lastReturn' = Returned(FALSE, FALSE, Some(CACHE), recentLoads, NoFanOut)
            /\ UNCHANGED <<calls, lastFetch>>
       ELSE /\ page' = PageMounted
            /\ lastFetch' = now
            /\ calls' = calls \cup {Call("fetchPlugins", 0, recentLoads)}
            /\ UNCHANGED lastReturn
    /\ UNCHANGED <<now, CACHE, loads, detailReturn>>
    /\ detailsLeft
    /\ UNCHANGED viewVars

MountPluginsDirect == MountDirectWithin(MaxDirectCalls)

\* the source host answers the search request of call c
searchResponse(c, resp) ==
    /\ c.fn = "fetchPlugins"
    /\ c.phase = "search"
    /\ resp.kind = "ok" => resp.total \in {Len(resp.items), Len(resp.items) + 1}
    /\ LET started == [c EXCEPT !.phase = "items", !.items = resp.items,
                                !.total = resp.total]
       IN  CASE resp.kind = "status" ->
                  /\ page' = pageAfterLoad(page, alive(c), FALSE, Null, "status")
                  /\ lastReturn' = Returned(TRUE, FALSE, Null, c.prior, NoFanOut)
                  /\ calls' = calls \ {c}
                  /\ UNCHANGED <<CACHE, loads>>
             [] resp.kind \in {"network", "badjson"} ->
                  finishWithThrow(c, resp.kind, NoFanOut)
             [] resp.kind = "ok" /\ resp.total = 0 ->
                  finishWithList(c, <<>>, FanOut(started, <<>>))
             [] resp.kind = "ok" /\ resp.items = <<>> ->
                  finishWithThrow(c, "missing", FanOut(started, <<>>))
             [] OTHER ->
                  /\ calls' = (calls \ {c}) \cup {started}
                  /\ UNCHANGED <<CACHE, page, lastReturn, loads>>
    /\ UNCHANGED <<now, lastFetch, nCalls, detailReturn>>
    /\ UNCHANGED <<viewVars, detailVars, renderVars>>

\* the await of the loop body at which a candidate's pass ends as fate says:
\* 1 fetch of package.json, 2 its text, 3 fetch of the release list, 4 its
\* text, 5 the HEAD request for the logo
stageOf(fate) ==
    CASE fate \in {"manifest-network", "manifest-status"} -> 1
      [] fate = "manifest-badjson" -> 2
      [] fate \in {"releases-network", "releases-status"} -> 3
      [] fate \in {"releases-badjson", "releases-empty"} -> 4
      [] OTHER -> 5

\* the error an await of the loop body throws
thrownBy(fate) ==
    IF fate \in {"manifest-badjson", "releases-badjson"} THEN "badjson" ELSE "network"

\* an await of the pass of "for (let i = 0; i < result.total_count; i++)" for
\* candidate i settles.  The pass ends as fate says: before the await where
\* that happens the loop body goes on to its next await; there the candidate
\* is skipped, pushed or the call throws, and the loop goes on to the next
\* candidate, returns after the last one, or throws on an item that is missing
itemStep(c, fate) ==
    /\ c.fn = "fetchPlugins"
    /\ c.phase = "items"
    /\ stageOf(fate) >= c.stage
    /\ LET out == itemOutcome(fate)
           acc == IF out = "push"
                  THEN Append(c.acc, pluginOf(c.items[c.i + 1], fate)) ELSE c.acc
           fates == Append(c.fates, fate)
       IN  IF stageOf(fate) > c.stage
           THEN /\ calls' = (calls \ {c}) \cup {[c EXCEPT !.stage = c.stage + 1]}
                /\ UNCHANGED <<CACHE, page, lastReturn, loads>>
           ELSE IF out = "throw"
           THEN finishWithThrow(c, thrownBy(fate), FanOut(c, fates))
           ELSE IF c.i + 1 >= c.total THEN finishWithList(c, acc, FanOut(c, fates))
           ELSE IF c.i + 2 > Len(c.items)
           THEN finishWithThrow(c, "missing", FanOut(c, fates))
           ELSE /\ calls' = (calls \ {c}) \cup
                               {[c EXCEPT !.i = c.i + 1, !.stage = 1,
                                          !.acc = acc, !.fates = fates]}
                /\ UNCHANGED <<CACHE, page, lastReturn, loads>>
    /\ UNCHANGED <<now, lastFetch, nCalls, detailReturn>>
    /\ UNCHANGED <<viewVars, detailVars, renderVars>>

NextDirect ==
    \/ Tick
    \/ UnmountPlugins
    \/ MountPluginsDirect
    \/ \E c \in calls : \E resp \in SearchResponses : searchResponse(c, resp)
    \/ \E c \in calls : \E fate \in Fates : itemStep(c, fate)

SpecDirect == InitLoader /\ [][NextDirect]_vars

(***************************************************************************)
(* C3 as claimed. In the direct design, whenever the search succeeded and  *)
(* returned every candidate it counted, fetchPlugins returns a list,       *)
(* however the manifest, release list or logo request of a candidate       *)
(* failed: the list holds exactly the candidates that loaded, in order.    *)
(* A candidate whose logo probe answered a non-success status is counted   *)
(* as loaded here, since the loader lists it with the placeholder logo.    *)
(***************************************************************************)
C3_ItemFailuresNeverFailTheCall ==
    (/\ lastReturn # Null
     /\ Get(lastReturn).fanout.searched
     /\ Get(lastReturn).fanout.total = Len(Get(lastReturn).fanout.items))
        => LET f == Get(lastReturn).fanout
               loaded == SelectSeq([i \in DOMAIN f.fates |-> <<f.items[i], f.fates[i]>>],
                                   LAMBDA x : x[2] \in {"ok", "logo-status"})
           IN  /\ ~Get(lastReturn).threw
               /\ Get(lastReturn).value # Null
               /\ Len(f.fates) = Len(f.items)
               /\ [i \in DOMAIN Get(Get(lastReturn).value) |->
                      Get(Get(lastReturn).value)[i].id]
                      = [i \in DOMAIN loaded |-> loaded[i][1].id]

(***************************************************************************)
(* The detail page of the direct source-host design                        *)
(*                                                                         *)
(* A text that is only stored, compared and displayed (a README, an error  *)
(* message) is a TLA+ string. A cache entry is Null while the Map has no   *)
(* entry for the key and Some(v) once it has one, v being the nullable     *)
(* value stored. The application reaches the detail page from the list and *)
(* leaves it to the list, so the route key is fixed while it is mounted.   *)
(***************************************************************************)
MaxVisits == 2
MaxTabSelections == 1
MaxReleases == 2
MaxStale == 1
PerPage == 1

Tabs == {LazyTab[r] : r \in LazyResources}

\* JavaScript truthiness of a state value: null and "" are falsy, arrays and objects are not
truthy(r, v) == v # Null /\ (r = "readme" => Get(v) # "")

\* cache.get(cacheKey) ?? null
cached(cache, r, key) == IF cache[r][key] = Null THEN Null ELSE Get(cache[r][key])

\* the useState initialisers of a mounting page
initialState(cache, key) ==
    LET val == [r \in Resources |-> cached(cache, r, key)]
    IN  [mounted |-> TRUE, key |-> key, tab |-> "readme", val |-> val,
         loading |-> [r \in Resources |->
                         IF r \in {"repo", "readme", "contributors", "latest"}
                         THEN ~truthy(r, val[r]) ELSE FALSE],
         err |-> [r \in Resources |-> Null]]

\* effects of the lists that take an empty list for "not loaded yet"
effectOfRefetchingEmpty(pg, cache, r) ==
    CASE r = "repo" -> IF truthy(r, pg.val[r]) THEN "idle" ELSE "fetch"
      [] r = "readme" ->
            IF pg.tab # LazyTab[r] \/ pg.val[r] # Null THEN "idle" ELSE "fetch"
      [] r \in {"releases", "commits", "gallery"} ->
            IF pg.tab # LazyTab[r] \/ (pg.val[r] # Null /\ Get(pg.val[r]) # <<>>)
            THEN "idle" ELSE "fetch"
      [] OTHER -> IF cache[r][pg.key] # Null THEN "cached" ELSE "fetch"

\* sidebar effects that do not look into their cache
effectOfIgnoringCache(pg, cache, r) ==
    CASE r = "repo" -> IF truthy(r, pg.val[r]) THEN "idle" ELSE "fetch"
      [] r = "readme" ->
            IF pg.tab # LazyTab[r] \/ pg.val[r] # Null THEN "idle" ELSE "fetch"
      [] r \in {"releases", "commits", "gallery"} ->
            IF pg.tab # LazyTab[r] \/ truthy(r, pg.val[r]) THEN "idle" ELSE "fetch"
      [] OTHER -> "fetch"

\* lazy effects that leave a resource alone once its error is set
effectOfWithoutRetry(pg, cache, r) ==
    CASE r = "repo" -> IF truthy(r, pg.val[r]) THEN "idle" ELSE "fetch"
      [] r = "readme" ->
            IF pg.tab # LazyTab[r] \/ pg.val[r] # Null \/ pg.err[r] # Null
            THEN "idle" ELSE "fetch"
      [] r \in {"releases", "commits", "gallery"} ->
            IF pg.tab # LazyTab[r] \/ truthy(r, pg.val[r]) \/ pg.err[r] # Null
            THEN "idle" ELSE "fetch"
      [] OTHER -> IF cache[r][pg.key] # Null THEN "cached" ELSE "fetch"

\* what the effect of resource r does when it runs in the render pg:
\* "fetch" starts a request, "cached" copies the cache entry, "idle" returns
effectOf(pg, cache, r) ==
    CASE r = "repo" -> IF truthy(r, pg.val[r]) THEN "idle" ELSE "fetch"
      [] r = "readme" ->
            IF pg.tab # LazyTab[r] \/ pg.val[r] # Null THEN "idle" ELSE "fetch"
      [] r \in {"releases", "commits", "gallery"} ->
            IF pg.tab # LazyTab[r] \/ truthy(r, pg.val[r]) THEN "idle" ELSE "fetch"
      [] OTHER -> IF cache[r][pg.key] # Null THEN "cached" ELSE "fetch"

\* the component state after the effects of the resources rs ran
runEffects(pg, cache, rs) ==
    [pg EXCEPT
        !.val = [r \in Resources |->
                    IF r \in rs /\ effectOf(pg, cache, r) = "cached"
                    THEN cached(cache, r, pg.key) ELSE pg.val[r]],
        !.loading = [r \in Resources |->
                        IF r \notin rs \/ effectOf(pg, cache, r) = "idle"
                        THEN pg.loading[r]
                        ELSE effectOf(pg, cache, r) = "fetch"],
        !.err = [r \in Resources |->
                    IF r \in rs /\ effectOf(pg, cache, r) = "fetch"
                    THEN Null ELSE pg.err[r]]]

\* a request in flight: an identity that tells it from the other requests in
\* flight, the resource and key, the position in the chain of awaits, the
\* alive flag of the effect that issued it, the kind of the response that
\* led to the follow-up request and the number of follow-ups, and whether the
\* effect started it while the resource's error of an earlier attempt was set
Request(r, key, id, retry) ==
    [id |-> id, res |-> r, key |-> key, phase |-> 1, alive |-> TRUE,
     first |-> "none", hops |-> 0, retry |-> retry]

\* the least identity no request in flight has
freshId(reqs) ==
    CHOOSE n \in 0..Cardinality(reqs) :
        \A m \in 0..n : (m \in {q.id : q \in reqs}) <=> (m < n)

\* the effects in the order the component declares them
EffectOrder ==
    <<"repo", "readme", "releases", "commits", "gallery", "latest", "contributors">>

\* reqs and the requests that the effects of the resources rs start, from the i-th effect on
RECURSIVE issued(_, _, _, _, _)
issued(pg, cache, rs, reqs, i) ==
    IF i > Len(EffectOrder) THEN reqs
    ELSE issued(pg, cache, rs,
                IF EffectOrder[i] \in rs /\ effectOf(pg, cache, EffectOrder[i]) = "fetch"
                THEN reqs \cup {Request(EffectOrder[i], pg.key, freshId(reqs),
                                       pg.err[EffectOrder[i]] # Null)}
                ELSE reqs,
                i + 1)

\* the cleanups of the effects of the resources rs: alive = false
torn(reqs, rs) ==
    {[q EXCEPT !.alive = q.alive /\ q.res \notin rs] : q \in reqs}

(***************************************************************************)
(* Responses and what each async effect body makes of them                 *)
(***************************************************************************)
Release(tag, draft) == [tag |-> tag, draft |-> draft]

\* the release lists a repository can have, newest first
ReleaseLists == SeqsUpTo({Release("v2", TRUE), Release("v1", FALSE)}, MaxReleases)

GalleryEntries ==
    {<<>>,
     <<[type |-> "file", ext |-> "PNG"], [type |-> "file", ext |-> "txt"],
       [type |-> "dir", ext |-> "png"]>>}

\* a non-success status, or a fetch that rejects
Failures == {[kind |-> "status"], [kind |-> "network"]}

\* the ways a request can end, by resource and position in the chain
Responses(r, phase) ==
    CASE r = "repo" -> {[kind |-> "ok", body |-> [default_branch |-> "main"]]} \cup Failures
      [] r = "readme" /\ phase = 1 ->
            {[kind |-> "404"], [kind |-> "pointer"], [kind |-> "unexpected"],
             [kind |-> "base64", content |-> <<"bW", "\n", "Q=">>],
             [kind |-> "text", body |-> "md"]} \cup Failures
      [] r = "readme" /\ phase = 2 ->
            {[kind |-> "ok", body |-> "md"], [kind |-> "status", body |-> "Not Found"],
             [kind |-> "network"]}
      [] r = "releases" ->
            {[kind |-> "ok", body |-> b] : b \in {<<>>, <<Release("v1", FALSE)>>}}
                \cup Failures
      [] r = "commits" ->
            {[kind |-> "ok", body |-> b] : b \in {<<>>, <<"commit">>}} \cup Failures
      [] r = "gallery" ->
            {[kind |-> "ok", body |-> b] : b \in GalleryEntries}
                \cup {[kind |-> "404"]} \cup Failures
      [] r = "latest" /\ phase = 1 ->
            {[kind |-> "ok", body |-> Release("v1", FALSE)], [kind |-> "404"]}
                \cup Failures
      [] r = "latest" /\ phase = 2 ->
            {[kind |-> "ok", body |-> SubSeq(b, 1, IF Len(b) < PerPage
                                                  THEN Len(b) ELSE PerPage)] :
                b \in ReleaseLists} \cup Failures
      [] OTHER ->
            {[kind |-> "ok", body |-> <<"dev">>], [kind |-> "204"]} \cup Failures

\* the three ways an effect body ends: it stores a value, it reports an
\* error, or it awaits a follow-up request
Stored(v) == [kind |-> "value", value |-> v]
Failed(message) == [kind |-> "error", message |-> message]
FollowUp == [kind |-> "more"]

\* throw new Error(`${prefix}: ${res.status}`) for a status, e.message for a rejected fetch
failure(prefix, resp) ==
    Failed(IF resp.kind = "status" THEN prefix ELSE "Failed to fetch")

\* atob on the content with its line breaks removed, decoded as UTF-8
decodeBase64Utf8(b64) ==
    LET clean == SelectSeq(b64, LAMBDA c : c # "\n")
    IN  IF clean = <<"bW", "Q=">> THEN "md" ELSE "?"

\* /\.(jpe?g|png|gif|webp|svg|mp4|webm)$/i
isMediaFile(ext) ==
    ext \in {"jpg", "jpeg", "png", "gif", "webp", "svg", "mp4", "webm",
             "JPG", "JPEG", "PNG", "GIF", "WEBP", "SVG", "MP4", "WEBM"}

\* arr.find(x => !x.draft) ?? null
RECURSIVE firstNonDraft(_)
firstNonDraft(arr) ==
    IF arr = <<>> THEN Null
    ELSE IF ~Head(arr).draft THEN Some(Head(arr)) ELSE firstNonDraft(Tail(arr))

repoOutcome(phase, resp) ==
    IF resp.kind = "ok" THEN Stored(Some(resp.body)) ELSE failure("GitHub error", resp)

readmeOutcome(phase, resp) ==
    IF phase = 1
    THEN CASE resp.kind = "404" -> Stored(Some(""))
           [] resp.kind = "base64" -> Stored(Some(decodeBase64Utf8(resp.content)))
           [] resp.kind = "pointer" -> FollowUp
           [] resp.kind = "text" -> Stored(Some(resp.body))
           [] resp.kind = "unexpected" -> Failed("Unexpected README response format.")
           [] OTHER -> failure("Failed to load README", resp)
    ELSE IF resp.kind = "network" THEN failure("Failed to load README", resp)
         ELSE Stored(Some(resp.body))

releasesOutcome(phase, resp) ==
    IF resp.kind = "ok" THEN Stored(Some(resp.body))
    ELSE failure("Failed to load releases", resp)

commitsOutcome(phase, resp) ==
    IF resp.kind = "ok" THEN Stored(Some(resp.body))
    ELSE failure("Failed to load commits", resp)

galleryOutcome(phase, resp) ==
    CASE resp.kind = "404" -> Stored(Some(<<>>))
      [] resp.kind = "ok" ->
            Stored(Some(SelectSeq(resp.body,
                                  LAMBDA item : item.type = "file" /\ isMediaFile(item.ext))))
      [] OTHER -> failure("Failed to load gallery content", resp)

\* a handler that treats 404 like every other non-success status
latestOutcomeWithoutFallback(phase, resp) ==
    IF resp.kind = "ok" /\ phase = 1 THEN Stored(Some(resp.body))
    ELSE IF resp.kind = "ok" THEN Stored(firstNonDraft(resp.body))
    ELSE Failed("Failed to load latest release")

latestOutcome(phase, resp) ==
    IF phase = 1
    THEN CASE resp.kind = "404" -> FollowUp
           [] resp.kind = "ok" -> Stored(Some(resp.body))
           [] OTHER -> failure("Failed to load latest release", resp)
    ELSE IF resp.kind = "ok" THEN Stored(firstNonDraft(resp.body))
         ELSE failure("Failed to load releases", resp)

\* a handler without the 204 branch: res.json() of the empty body throws
contributorsOutcomeWithout204(phase, resp) ==
    CASE resp.kind = "204" -> Failed("Unexpected end of JSON input")
      [] resp.kind = "ok" -> Stored(Some(resp.body))
      [] OTHER -> failure("Failed to load contributors", resp)

contributorsOutcome(phase, resp) ==
    CASE resp.kind = "204" -> Stored(Some(<<>>))
      [] resp.kind = "ok" -> Stored(Some(resp.body))
      [] OTHER -> failure("Failed to load contributors", resp)

outcomeOf(r, phase, resp) ==
    CASE r = "repo" -> repoOutcome(phase, resp)
      [] r = "readme" -> readmeOutcome(phase, resp)
      [] r = "releases" -> releasesOutcome(phase, resp)
      [] r = "commits" -> commitsOutcome(phase, resp)
      [] r = "gallery" -> galleryOutcome(phase, resp)
      [] r = "latest" -> latestOutcome(phase, resp)
      [] OTHER -> contributorsOutcome(phase, resp)

\* a page whose commits effect depends on the whole repo outcome
rerunAfterAnyOutcome(r, out) ==
    IF r = "repo" THEN {"commits"} ELSE {}

\* the effects that run again because the handled response changed one of
\* their dependencies and that can start a request: repo?.default_branch
\* is a dependency of the commits effect
rerunAfter(r, out) ==
    IF r = "repo" /\ out.kind = "value" THEN {"commits"} ELSE {}

(***************************************************************************)
(* The detail page as a state machine                                      *)
(***************************************************************************)
\* the page is opened for a plugin, as one of at most "most" visits: initial
\* state, then every effect runs
MountWithin(key, most) ==
    /\ ~dpage.mounted
    /\ nVisits < most
    /\ nVisits' = nVisits + 1
    /\ LET pg == initialState(dcache, key)
       IN  /\ dpage' = runEffects(pg, dcache, Resources)
           /\ dreqs' = issued(pg, dcache, Resources, dreqs, 1)
    /\ page' = pageLeft(page)
    /\ UNCHANGED <<dcache, nTabs>>
    /\ UNCHANGED <<now, CACHE, lastFetch, calls, nCalls, lastReturn, loads, detailReturn>>
    /\ UNCHANGED <<viewVars, renderVars>>

MountDetails(key) == MountWithin(key, MaxVisits)

\* the page is left while at most "most" requests are in flight: every
\* effect's cleanup runs
UnmountWithin(most) ==
    /\ dpage.mounted
    /\ Cardinality(dreqs) <= most
    /\ dpage' = DetailUnmounted
    /\ dreqs' = torn(dreqs, Resources)
    /\ UNCHANGED <<dcache, nVisits, nTabs>>
    /\ UNCHANGED <<viewVars, loaderVars, renderVars>>

UnmountDetails == UnmountWithin(MaxStale)

\* setTab(t), as one of at most "most" selections: the four lazy effects
\* depend on the tab, are cleaned up and run again
SelectTabWithin(t, most) ==
    /\ dpage.mounted
    /\ t # dpage.tab
    /\ nTabs < most
    /\ nTabs' = nTabs + 1
    /\ LET pg == [dpage EXCEPT !.tab = t]
       IN  /\ dpage' = runEffects(pg, dcache, LazyResources)
           /\ dreqs' = issued(pg, dcache, LazyResources, torn(dreqs, LazyResources), 1)
    /\ UNCHANGED <<dcache, nVisits>>
    /\ UNCHANGED <<viewVars, loaderVars, renderVars>>

SelectTab(t) == SelectTabWithin(t, MaxTabSelections)

\* the response resp to the request q arrives and the rest of the async body runs
Respond(q, resp) ==
    /\ q \in dreqs
    /\ LET out == outcomeOf(q.res, q.phase, resp)
           pg == [dpage EXCEPT
                     !.val[q.res] = IF out.kind = "value" THEN out.value ELSE @,
                     !.err[q.res] = IF out.kind = "error" THEN Some(out.message) ELSE @,
                     !.loading[q.res] = FALSE]
           again == rerunAfter(q.res, out)
       IN  IF out.kind = "more"
           THEN /\ dreqs' = (dreqs \ {q}) \cup
                               {[q EXCEPT !.phase = 2, !.first = resp.kind, !.hops = @ + 1]}
                /\ UNCHANGED <<dpage, dcache>>
           ELSE IF ~q.alive
           THEN /\ dreqs' = dreqs \ {q}
                /\ UNCHANGED <<dpage, dcache>>
           ELSE /\ dcache' = IF out.kind = "value"
                             THEN [dcache EXCEPT ![q.res][q.key] = Some(out.value)]
                             ELSE dcache
                /\ dpage' = runEffects(pg, dcache', again)
                /\ dreqs' = issued(pg, dcache', again, torn(dreqs \ {q}, again), 1)
    /\ UNCHANGED <<nVisits, nTabs>>
    /\ UNCHANGED <<viewVars, loaderVars, renderVars>>

InitDetail == LoaderIdle /\ ViewIdle /\ DetailIdle /\ RenderIdle

NextDetail ==
    \/ \E key \in Keys : MountDetails(key)
    \/ UnmountDetails
    \/ \E t \in Tabs : SelectTab(t)
    \/ \E q \in dreqs : \E resp \in Responses(q.res, q.phase) : Respond(q, resp)

SpecDetail == InitDetail /\ [][NextDetail]_vars

(***************************************************************************)
(* What the panels of the detail page show                                 *)
(***************************************************************************)
readmePanel(pg) ==
    IF pg.tab # "readme" THEN {}
    ELSE {x \in {"Loading README", "error", "No README found", "markdown"} :
            \/ x = "Loading README" /\ pg.loading.readme
            \/ x = "error" /\ pg.err.readme # Null /\ ~pg.loading.readme
            \/ /\ x = "No README found"
               /\ ~pg.loading.readme /\ pg.err.readme = Null /\ pg.val.readme = Some("")
            \/ /\ x = "markdown"
               /\ ~pg.loading.readme /\ pg.err.readme = Null
               /\ truthy("readme", pg.val.readme)}

latestPanel(pg) ==
    {x \in {"Loading", "error", "No releases yet.", "release"} :
        \/ x = "Loading" /\ pg.loading.latest
        \/ x = "error" /\ pg.err.latest # Null /\ ~pg.loading.latest
        \/ /\ x = "No releases yet."
           /\ ~pg.loading.latest /\ pg.err.latest = Null /\ pg.val.latest = Null
        \/ x = "release" /\ pg.val.latest # Null}

contributorsPanel(pg) ==
    {x \in {"Loading", "error", "No contributors yet.", "grid"} :
        \/ x = "Loading" /\ pg.loading.contributors
        \/ x = "error" /\ pg.err.contributors # Null /\ ~pg.loading.contributors
        \/ /\ x = "No contributors yet."
           /\ ~pg.loading.contributors /\ pg.err.contributors = Null
           /\ (pg.val.contributors = Null \/ pg.val.contributors = Some(<<>>))
        \/ /\ x = "grid"
           /\ pg.val.contributors # Null /\ Get(pg.val.contributors) # <<>>}

(***************************************************************************)
(* C8 as claimed. Whenever the README tab is displayed for a plugin whose  *)
(* README request returned 404 (the cache holds the empty string for it),  *)
(* also after the page was left and opened again, the README value is the  *)
(* empty string and the panel shows "No README found" and neither the      *)
(* loading nor the error state.                                            *)
(***************************************************************************)
C8_AbsentReadmeShowsNoReadme ==
    (/\ dpage.mounted
     /\ dpage.tab = "readme"
     /\ dcache.readme[dpage.key] = Some(Some("")))
        => /\ dpage.val.readme = Some("")
           /\ readmePanel(dpage) = {"No README found"}

(***************************************************************************)
(* C9. When a contributors request of the displayed page is answered with  *)
(* 204, the contributors value becomes the empty sequence, the cache holds *)
(* the empty sequence for the plugin, no contributors error is set, the    *)
(* loading flag is off and the sidebar shows "No contributors yet." only.  *)
(***************************************************************************)
C9_NoContentMeansNoContributors ==
    [][\A q \in dreqs :
        (q.res = "contributors" /\ q.alive /\ Respond(q, [kind |-> "204"]))
            => /\ dpage'.val.contributors = Some(<<>>)
               /\ dcache'.contributors[q.key] = Some(Some(<<>>))
               /\ dpage'.err.contributors = Null
               /\ ~dpage'.loading.contributors
               /\ contributorsPanel(dpage') = {"No contributors yet."}]_vars

C9_Witness ==
    /\ dpage.mounted
    /\ dcache.contributors[dpage.key] = Some(Some(<<>>))
    /\ dpage.val.contributors = Some(<<>>)
    /\ contributorsPanel(dpage) = {"No contributors yet."}

(***************************************************************************)
(* C10. When a latest-release request is answered with 404, exactly one    *)
(* release-listing request is issued for it; when the listing arrives for  *)
(* the displayed page, its first non-draft entry becomes the latest        *)
(* release and is cached, and if the listing is empty the latest release   *)
(* is null, null is cached and the sidebar shows "No releases yet." with   *)
(* neither the loading nor the error state.                                *)
(***************************************************************************)
C10_MissingLatestFallsBackToListing ==
    [][\A q \in dreqs : \A resp \in Responses("latest", q.phase) :
        (q.res = "latest" /\ Respond(q, resp))
            => /\ (q.phase = 1 /\ resp.kind = "404")
                    => /\ dreqs' \ dreqs =
                            {[q EXCEPT !.phase = 2, !.first = "404", !.hops = 1]}
                       /\ dreqs \ dreqs' = {q}
               /\ (q.phase = 2 /\ q.alive /\ resp.kind = "ok")
                    => /\ q.first = "404" /\ q.hops = 1
                       /\ dpage'.val.latest = firstNonDraft(resp.body)
                       /\ dcache'.latest[q.key] = Some(firstNonDraft(resp.body))
                       /\ ~dpage'.loading.latest
                       /\ dpage'.err.latest = Null
                       /\ resp.body = <<>>
                            => /\ dpage'.val.latest = Null
                               /\ dcache'.latest[q.key] = Some(Null)
                               /\ latestPanel(dpage') = {"No releases yet."}]_vars

C10_Witness ==
    /\ dpage.mounted
    /\ dcache.latest[dpage.key] = Some(Null)
    /\ dpage.val.latest = Null
    /\ latestPanel(dpage) = {"No releases yet."}

(***************************************************************************)
(* C16 as claimed. After any interleaving of fetchPlugins and fetchPlugin  *)
(* calls and their completions, the list cache holds at most one record    *)
(* per plugin id, and so does every collection fetchPlugins returned.      *)
(***************************************************************************)
C16_CacheHoldsOneRecordPerId ==
    /\ \A i, j \in DOMAIN CACHE : CACHE[i].id = CACHE[j].id => i = j
    /\ (lastReturn # Null /\ Get(lastReturn).value # Null)
          => \A i, j \in DOMAIN Get(Get(lastReturn).value) :
                Get(Get(lastReturn).value)[i].id = Get(Get(lastReturn).value)[j].id
                    => i = j

(***************************************************************************)
(* C20. In the direct design every plugin of a list that fetchPlugins      *)
(* returns after a fan-out is a candidate whose manifest request and       *)
(* release list request succeeded, the release list holding at least one   *)
(* release; and a plugin enters the cache only as a member of such a list, *)
(* so a repository with no release is never listed.                        *)
(***************************************************************************)
ReleasedCandidate(fate) == fate \in {"ok", "logo-status", "logo-network"}

C20_OnlyReleasedPluginsAreListed ==
    /\ [](\A ret \in {r \in {lastReturn} : r # Null /\ Get(r).fanout.searched} :
            /\ ~Get(ret).threw => Get(ret).value # Null
            /\ Get(ret).value # Null =>
                \A k \in DOMAIN Get(Get(ret).value) :
                    \E i \in DOMAIN Get(ret).fanout.fates :
                        /\ Get(ret).fanout.items[i].id = Get(Get(ret).value)[k].id
                        /\ ReleasedCandidate(Get(ret).fanout.fates[i]))
    /\ [][\A k \in DOMAIN CACHE' :
            \/ \E j \in DOMAIN CACHE : CACHE[j] = CACHE'[k]
            \/ /\ lastReturn' # Null
               /\ Get(lastReturn').fanout.searched
               /\ Get(lastReturn').value # Null
               /\ \E j \in DOMAIN Get(Get(lastReturn').value) :
                     Get(Get(lastReturn').value)[j] = CACHE'[k]]_vars

C20_Witness ==
    /\ lastReturn # Null
    /\ Get(lastReturn).fanout.searched
    /\ Get(lastReturn).fanout.fates = <<"releases-empty", "ok">>
    /\ Get(lastReturn).value # Null
    /\ Len(Get(Get(lastReturn).value)) = 1
    /\ CACHE = Get(Get(lastReturn).value)

(***************************************************************************)
(* C15. In the direct design, when the request of one resource of the      *)
(* displayed page ends in a failure, the page records the message as that  *)
(* resource's error and turns its loading flag off; the resource's value,  *)
(* the value, loading flag and error of every other resource and every     *)
(* cache entry stay as they were.                                          *)
(***************************************************************************)
C15_FailureTouchesOnlyItsOwnSection ==
    [][\A q \in dreqs : \A resp \in Responses(q.res, q.phase) :
        (/\ q.alive
         /\ outcomeOf(q.res, q.phase, resp).kind = "error"
         /\ Respond(q, resp))
            => /\ dpage'.err[q.res] = Some(outcomeOf(q.res, q.phase, resp).message)
               /\ ~dpage'.loading[q.res]
               /\ dpage'.val = dpage.val
               /\ \A r \in Resources \ {q.res} :
                     /\ dpage'.loading[r] = dpage.loading[r]
                     /\ dpage'.err[r] = dpage.err[r]
               /\ dcache' = dcache
               /\ dpage'.tab = dpage.tab /\ dpage'.key = dpage.key]_vars

C15_Witness ==
    /\ dpage.mounted
    /\ dpage.err.repo = Some("GitHub error")
    /\ ~dpage.loading.repo
    /\ dpage.val.repo = Null
    /\ dcache.repo[dpage.key] = Null
    /\ dpage.err.commits = Some("Failed to load commits")
    /\ ~dpage.loading.commits
    /\ dpage.loading.latest /\ dpage.err.latest = Null

(***************************************************************************)
(* Links and images of the README: resolveUrl                              *)
(***************************************************************************)
MaxUrlLen == 3

\* a string as the sequence of its characters
Chars(word) ==
    CASE word = "http://h"   -> <<"h", "t", "t", "p", ":", "/", "/", "h">>
      [] word = "https://h"  -> <<"h", "t", "t", "p", "s", ":", "/", "/", "h">>
      [] word = "HTTPS://h"  -> <<"H", "T", "T", "P", "S", ":", "/", "/", "h">>
      [] word = "Http://h/a" -> <<"H", "t", "t", "p", ":", "/", "/", "h", "/", "a">>
      [] word = "https:/h"   -> <<"h", "t", "t", "p", "s", ":", "/", "h">>
      [] word = "http:a"     -> <<"h", "t", "t", "p", ":", "a">>
      [] word = "ftp://h"    -> <<"f", "t", "p", ":", "/", "/", "h">>
      [] word = "mailto:a"   -> <<"m", "a", "i", "l", "t", "o", ":", "a">>
      [] word = "data:a"     -> <<"d", "a", "t", "a", ":", "a">>
      [] word = "./a/./b"    -> <<".", "/", "a", "/", ".", "/", "b">>
      [] word = "../a"       -> <<".", ".", "/", "a">>
      [] OTHER               -> <<"a", ".", "p", "n", "g">>

\* the URLs a README can hold: some of the usual forms and every short string
UrlSamples ==
    {Chars(w) : w \in {"http://h", "https://h", "HTTPS://h", "Http://h/a", "https:/h",
                       "http:a", "ftp://h", "mailto:a", "data:a", "./a/./b", "../a",
                       "a.png"}}

Urls == UrlSamples \cup SeqsUpTo({"/", ".", "#", ":", "a"}, MaxUrlLen)

\* what the markdown renderer hands to resolveUrl: a string or undefined
LinkArguments == {Null} \cup {Some(u) : u \in Urls}

\* the repository metadata the page holds while README is rendered
LinkRepos == {Null, Some([default_branch |-> "main"]), Some([default_branch |-> ""])}

\* s.startsWith(prefix)
startsWith(s, prefix) ==
    Len(s) >= Len(prefix) /\ SubSeq(s, 1, Len(prefix)) = prefix

\* the letters of "https" under the regular expression's i flag
foldCase(c) ==
    CASE c = "H" -> "h"
      [] c = "T" -> "t"
      [] c = "P" -> "p"
      [] c = "S" -> "s"
      [] OTHER -> c

\* /^(?:https?:)?\/\//i.test(url)
testsAsWebUrl(url) ==
    LET folded == [i \in DOMAIN url |-> foldCase(url[i])]
    IN  \/ startsWith(folded, <<"/", "/">>)
        \/ startsWith(folded, <<"h", "t", "t", "p", ":", "/", "/">>)
        \/ startsWith(folded, <<"h", "t", "t", "p", "s", ":", "/", "/">>)

\* url.replace(/^\.?\//, "")
stripLeadingSlash(url) ==
    IF startsWith(url, <<".", "/">>) THEN SubSeq(url, 3, Len(url))
    ELSE IF startsWith(url, <<"/">>) THEN SubSeq(url, 2, Len(url))
    ELSE url

\* repo?.default_branch || "HEAD"
defaultBranchOf(repo) ==
    IF repo = Null \/ Get(repo).default_branch = "" THEN "HEAD"
    ELSE Get(repo).default_branch

\* `https://raw.githubusercontent.com/${owner}/${name}/${defaultBranch}`, the
\* host, owner, name and branch each standing as one element
rawBaseOf(owner, name, branch) ==
    <<"h", "t", "t", "p", "s", ":", "/", "/", "raw.githubusercontent.com",
      "/", owner, "/", name, "/", branch>>

resolveUrl(url, rawBase) ==
    IF url = Null \/ Get(url) = <<>> THEN <<>>
    ELSE IF testsAsWebUrl(Get(url)) \/ startsWith(Get(url), <<"#">>) THEN Get(url)
    ELSE rawBase \o <<"/">> \o stripLeadingSlash(Get(url))

\* the README holds a link and the page some repository metadata
InitLink ==
    /\ LoaderIdle /\ ViewIdle /\ DetailIdle
    /\ hero = Null /\ bdetail = Null
    /\ link \in {Some([url |-> u, repo |-> r, out |-> Null, again |-> Null]) :
                    u \in LinkArguments, r \in LinkRepos}

\* the markdown renderer resolves the link
ResolveLink ==
    /\ Get(link).out = Null
    /\ link' = Some([Get(link) EXCEPT
                        !.out = Some(resolveUrl(Get(link).url,
                                                rawBaseOf("o", "a", defaultBranchOf(Get(link).repo))))])
    /\ UNCHANGED <<hero, bdetail>>
    /\ UNCHANGED <<viewVars, loaderVars, detailVars>>

\* the resolved URL is resolved once more
ResolveAgain ==
    /\ Get(link).out # Null
    /\ Get(link).again = Null
    /\ link' = Some([Get(link) EXCEPT
                        !.again = Some(resolveUrl(Get(link).out,
                                                  rawBaseOf("o", "a", defaultBranchOf(Get(link).repo))))])
    /\ UNCHANGED <<hero, bdetail>>
    /\ UNCHANGED <<viewVars, loaderVars, detailVars>>

NextLink == ResolveLink \/ ResolveAgain

SpecLink == InitLink /\ [][NextLink]_vars

\* scheme ":" rest, the scheme a letter followed by letters
IsAbsoluteUrl(url) ==
    \E i \in DOMAIN url :
        /\ i > 1
        /\ url[i] = ":"
        /\ \A j \in 1..(i - 1) : url[j] \notin {"/", ".", "#", ":"}

IsAnchor(url) == url # <<>> /\ url[1] = "#"

\* neither a scheme nor an authority nor an anchor
IsRelativePath(url) ==
    /\ url # <<>>
    /\ ~IsAbsoluteUrl(url)
    /\ ~IsAnchor(url)
    /\ ~startsWith(url, <<"/", "/">>)

(***************************************************************************)
(* C17 as claimed. resolveUrl returns every absolute URL and every anchor  *)
(* unchanged, maps every relative path to the raw-content base, a slash    *)
(* and the path without one leading "./" or "/", the branch being "HEAD"   *)
(* while no repository metadata is held, and resolving a non-empty result  *)
(* again returns that result.                                              *)
(***************************************************************************)
C17_ResolveUrlAsClaimed ==
    (link # Null /\ Get(link).url # Null /\ Get(link).out # Null) =>
        LET url == Get(Get(link).url)
            out == Get(Get(link).out)
            base == rawBaseOf("o", "a", IF Get(link).repo = Null THEN "HEAD"
                                        ELSE defaultBranchOf(Get(link).repo))
        IN  /\ (IsAbsoluteUrl(url) \/ IsAnchor(url)) => out = url
            /\ IsRelativePath(url) =>
                  out = base \o <<"/">> \o
                        (IF startsWith(url, <<".", "/">>) THEN SubSeq(url, 3, Len(url))
                         ELSE IF url[1] = "/" THEN Tail(url) ELSE url)
            /\ (out # <<>> /\ Get(link).again # Null) => Get(Get(link).again) = out

(***************************************************************************)
(* The header of the detail page: title, description, stars, logo and      *)
(* keywords, derived from the navigation state and the loaded repository   *)
(***************************************************************************)
Designs == {"direct", "backend"}

\* the plugin summary the list page passes as navigation state, if any
Summaries ==
    {Null} \cup
    {Some([owner |-> "o", name |-> "a", description |-> d, stars |-> st,
           logo |-> l, keywords |-> kw]) :
        d \in {"", "listed"}, st \in {5, 1200}, l \in {Null, Some("logo.png")},
        kw \in {<<>>, <<"keyword">>}}

\* the repository records the source host can answer with
Repos(design) ==
    IF design = "direct"
    THEN {[full_name |-> <<o, "/", "a">>, description |-> d, stargazers_count |-> st,
           topics |-> t] :
            o \in {"o", "O"}, d \in {Null, Some(""), Some("loaded")},
            st \in {7, 98700}, t \in {Null, Some(<<>>), Some(<<"topic">>)}}
    ELSE {[name |-> n, description |-> d, stars |-> st] :
            n \in {<<"a">>, <<"A">>}, d \in {Null, Some(""), Some("loaded")},
            st \in {Null, Some(7)}}

PlaceholderLogo == "https://avatars.githubusercontent.com/u/92610726?s=88&v=4"

\* the number of bits of the positive integer m
RECURSIVE bitLength(_)
bitLength(m) == IF m = 0 THEN 0 ELSE 1 + bitLength(m \div 2)

\* long division rem / unit for "bits" more binary digits, then the rounding
\* of the quotient to the nearest double, ties to even: 1 when the double is
\* above the exact quotient, -1 when it is below, 0 when it is exact
RECURSIVE roundingOf(_, _, _, _)
roundingOf(rem, unit, bits, last) ==
    IF bits = 0
    THEN IF rem = 0 THEN 0
         ELSE IF 2 * rem > unit THEN 1
         ELSE IF 2 * rem < unit THEN -1
         ELSE IF last = 1 THEN 1 ELSE -1
    ELSE roundingOf(IF 2 * rem >= unit THEN 2 * rem - unit ELSE 2 * rem, unit,
                    bits - 1, IF 2 * rem >= unit THEN 1 ELSE 0)

\* how the double n / unit (n >= unit) lies to the exact quotient: a double
\* has 53 significant bits
doubleError(n, unit) ==
    roundingOf(n % unit, unit, 53 - bitLength(n \div unit), (n \div unit) % 2)

\* +(n / unit).toFixed(digits): the double n / unit is rounded to the nearest
\* multiple of 10^-digits, to the larger one when it is exactly half way;
\* the unary plus drops a fraction of zero.  The result is the integer part,
\* the first decimal (0 standing for none) and the suffix
scaled(n, unit, digits, suffix) ==
    LET step == IF digits = 1 THEN unit \div 10 ELSE unit
        down == n \div step
        rest == n % step
        up == \/ 2 * rest > step
              \/ 2 * rest = step /\ doubleError(n, unit) >= 0
        steps == IF up THEN down + 1 ELSE down
        tenths == IF digits = 1 THEN steps ELSE steps * 10
    IN  [int |-> tenths \div 10, frac |-> tenths % 10, suffix |-> suffix]

formatCount(n) ==
    IF n < 1000 THEN [int |-> n, frac |-> 0, suffix |-> ""]
    ELSE IF n < 1000000 THEN scaled(n, 1000, IF n % 1000 >= 100 THEN 1 ELSE 0, "k")
    ELSE IF n < 1000000000 THEN scaled(n, 1000000, 1, "M")
    ELSE scaled(n, 1000000000, 1, "B")

\* a ?? b on nullable values
orElse(a, b) == IF a # Null THEN a ELSE b

\* the derived display values and the hero of the direct design
headerDirect(fromState, repo, owner, name) ==
    [title |-> IF repo # Null THEN Get(repo).full_name
               ELSE IF fromState # Null
                    THEN <<Get(fromState).owner, "/", Get(fromState).name>>
                    ELSE <<owner, "/", name>>,
     description |->
        Get(orElse(IF repo # Null THEN Get(repo).description ELSE Null,
                   orElse(IF fromState # Null THEN Some(Get(fromState).description)
                          ELSE Null,
                          Some("")))),
     stars |-> formatCount(Get(orElse(IF repo # Null THEN Some(Get(repo).stargazers_count)
                                      ELSE Null,
                                      orElse(IF fromState # Null
                                             THEN Some(Get(fromState).stars) ELSE Null,
                                             Some(0))))),
     logo |-> Get(orElse(IF fromState # Null THEN Get(fromState).logo ELSE Null,
                         Some(PlaceholderLogo))),
     keywords |-> IF fromState # Null /\ Len(Get(fromState).keywords) # 0
                  THEN Get(fromState).keywords
                  ELSE Get(orElse(IF repo # Null THEN Get(repo).topics ELSE Null,
                                  Some(<<>>)))]

\* the same of the backend design
headerBackend(fromState, repo, owner, name) ==
    [title |-> IF repo # Null THEN Get(repo).name
               ELSE IF fromState # Null
                    THEN <<Get(fromState).owner, "/", Get(fromState).name>>
                    ELSE <<owner, "/", name>>,
     description |->
        Get(orElse(IF fromState # Null THEN Some(Get(fromState).description) ELSE Null,
                   orElse(IF repo # Null THEN Get(repo).description ELSE Null,
                          Some("")))),
     stars |-> formatCount(Get(orElse(IF repo # Null THEN Get(repo).stars ELSE Null,
                                      orElse(IF fromState # Null
                                             THEN Some(Get(fromState).stars) ELSE Null,
                                             Some(0))))),
     logo |-> Get(orElse(IF fromState # Null THEN Get(fromState).logo ELSE Null,
                         Some(PlaceholderLogo))),
     keywords |-> IF fromState # Null /\ Len(Get(fromState).keywords) # 0
                  THEN Get(fromState).keywords
                  ELSE <<>>]

header(design, fromState, repo) ==
    IF design = "direct" THEN headerDirect(fromState, repo, "o", "a")
    ELSE headerBackend(fromState, repo, "o", "a")

\* the page is opened and rendered before the repository record is there;
\* in the backend design the loading effect calls navigate("/plugins") when
\* the navigation state has no plugin
OpenHeader(design, fromState) ==
    /\ hero = Null
    /\ hero' = Some([design |-> design, fromState |-> fromState, repo |-> Null,
                     mounted |-> TRUE,
                     navigated |-> (design = "backend" /\ fromState = Null),
                     shown |-> header(design, fromState, Null)])
    /\ UNCHANGED <<link, bdetail>>
    /\ UNCHANGED <<viewVars, loaderVars, detailVars>>

\* the page is left, by the user or by the router showing /plugins after the
\* navigate call: the cleanup of the repository effect sets alive to false
LeaveHeader ==
    /\ hero # Null
    /\ Get(hero).mounted
    /\ hero' = Some([Get(hero) EXCEPT !.mounted = FALSE])
    /\ UNCHANGED <<link, bdetail>>
    /\ UNCHANGED <<viewVars, loaderVars, detailVars>>

\* the repository request of a page that is mounted is answered: if (!alive)
\* return; setRepo(data), and the page renders again with the loaded record
RepoLoaded(repo) ==
    /\ hero # Null
    /\ Get(hero).mounted
    /\ Get(hero).repo = Null
    /\ hero' = Some([Get(hero) EXCEPT
                        !.repo = Some(repo),
                        !.shown = header(Get(hero).design, Get(hero).fromState, Some(repo))])
    /\ UNCHANGED <<link, bdetail>>
    /\ UNCHANGED <<viewVars, loaderVars, detailVars>>

NextHeader ==
    \/ \E design \in Designs : \E fromState \in Summaries : OpenHeader(design, fromState)
    \/ \E repo \in Repos("direct") \cup Repos("backend") :
          hero # Null /\ repo \in Repos(Get(hero).design) /\ RepoLoaded(repo)
    \/ LeaveHeader

SpecHeader == InitLoader /\ [][NextHeader]_vars

\* the displayed fields, the navigation state and the loaded record of a header
Shown == Get(hero).shown
FromState == Get(Get(hero).fromState)
Loaded == Get(Get(hero).repo)

\* the displayed fields are those of the navigation state
ShowsNavigationState ==
    /\ Shown.title = <<FromState.owner, "/", FromState.name>>
    /\ Shown.description = FromState.description
    /\ Shown.stars = formatCount(FromState.stars)
    /\ Shown.logo = (IF FromState.logo # Null THEN Get(FromState.logo) ELSE PlaceholderLogo)
    /\ Shown.keywords = FromState.keywords

(***************************************************************************)
(* C18 as claimed. While no record is loaded the header shows the title,   *)
(* description, stars, logo and keywords of the navigation state; once the *)
(* record is loaded, every field the record carries is shown with the      *)
(* record's value.                                                         *)
(***************************************************************************)
C18_LoadedRecordOverwritesEveryField ==
    (IF hero = Null THEN FALSE ELSE Get(hero).mounted) =>
        /\ (Get(hero).repo = Null /\ Get(hero).fromState # Null) => ShowsNavigationState
        /\ (Get(hero).repo # Null /\ Get(hero).design = "direct") =>
              /\ Shown.title = Loaded.full_name
              /\ Loaded.description # Null => Shown.description = Get(Loaded.description)
              /\ Shown.stars = formatCount(Loaded.stargazers_count)
              /\ Loaded.topics # Null => Shown.keywords = Get(Loaded.topics)
        /\ (Get(hero).repo # Null /\ Get(hero).design = "backend") =>
              /\ Shown.title = Loaded.name
              /\ Loaded.description # Null => Shown.description = Get(Loaded.description)
              /\ Loaded.stars # Null => Shown.stars = formatCount(Get(Loaded.stars))

(***************************************************************************)
(* The detail page of the backend design: one effect loads the plugin's    *)
(* record with fetchPlugin and fills six panels from it                    *)
(***************************************************************************)
Panels == {"readme", "releases", "gallery", "contributors", "latest", "commits"}

\* location.state.plugin: absent when the page is opened by its URL
NavigationStates == {Null} \cup {Some([id |-> i]) : i \in 1..MaxId}

\* the detail fields of a plugin record: plugin 1 has content, the others none
detailsOf(plugin) ==
    IF plugin.id = 1
    THEN [readme |-> "md", releases |-> <<"v2", "v1">>, gallery |-> <<"a.png">>,
          contributors |-> <<"dev">>, commits |-> <<"commit">>]
    ELSE [readme |-> "", releases |-> <<>>, gallery |-> <<>>,
          contributors |-> <<>>, commits |-> <<>>]

\* the component state at the first render
backendInitialState(fromState) ==
    [mounted |-> TRUE, fromState |-> fromState, call |-> 0, navigated |-> FALSE,
     val |-> [r \in Panels |-> Null],
     loading |-> [r \in Panels |-> TRUE],
     err |-> [r \in Panels |-> Null]]

\* an effect body that takes the oldest release for the latest one
afterFetchPluginOldestRelease(pg, plugin) ==
    IF plugin = Null
    THEN [pg EXCEPT !.loading = [r \in Panels |-> FALSE]]
    ELSE LET d == detailsOf(Get(plugin))
         IN  [pg EXCEPT
                !.val = [r \in Panels |->
                            IF r = "latest"
                            THEN IF d.releases # <<>>
                                 THEN Some(d.releases[Len(d.releases)]) ELSE Null
                            ELSE Some(d[r])],
                !.loading = [r \in Panels |-> FALSE]]

\* the effect body from the return of fetchPlugin on: try and finally
afterFetchPlugin(pg, plugin) ==
    IF plugin = Null
    THEN [pg EXCEPT !.loading = [r \in Panels |-> FALSE]]
    ELSE LET d == detailsOf(Get(plugin))
         IN  [pg EXCEPT
                !.val = [r \in Panels |->
                            IF r = "latest"
                            THEN IF d.releases # <<>> THEN Some(d.releases[1]) ELSE Null
                            ELSE Some(d[r])],
                !.loading = [r \in Panels |-> FALSE]]

\* the router shows the detail page, so the list page is not shown, and the
\* loading effect runs in the render pg, up to its first await.  With no id
\* in the navigation state it calls navigate("/plugins") and returns, and the
\* finally block clears the loading flags: the page is still mounted, and
\* the router shows /plugins in the commit that follows.  Else it calls
\* fetchPlugin
detailsEffect(pg, fromState) ==
    IF fromState = Null
    THEN /\ bdetail' = Some([pg EXCEPT !.navigated = TRUE,
                                     !.loading = [r \in Panels |-> FALSE]])
         /\ page' = pageLeft(page)
         /\ UNCHANGED <<now, CACHE, lastFetch, calls, nCalls, lastReturn, loads,
                        detailReturn>>
    ELSE /\ fetchPluginStart(Get(fromState).id)
         /\ page' = pageLeft(page)
         /\ bdetail' =
               IF servedFromCache(Get(fromState).id)
               THEN Some(afterFetchPlugin(pg, Some(findById(CACHE, Get(fromState).id))))
               ELSE Some([pg EXCEPT !.call = nCalls + 1])

\* the router shows the detail page, which was not shown: first render
OpenBackendDetails(fromState) ==
    /\ IF bdetail = Null THEN TRUE ELSE ~Get(bdetail).mounted
    /\ detailsEffect(backendInitialState(fromState), fromState)
    /\ UNCHANGED <<link, hero>>
    /\ UNCHANGED <<viewVars, detailVars>>

\* the location changes while the detail page is shown: the component and
\* its state are kept, the loading effect is cleaned up and runs again
RerouteBackendDetails(fromState) ==
    /\ IF bdetail = Null THEN FALSE ELSE Get(bdetail).mounted
    /\ detailsEffect([Get(bdetail) EXCEPT !.fromState = fromState, !.call = 0],
                     fromState)
    /\ UNCHANGED <<link, hero>>
    /\ UNCHANGED <<viewVars, detailVars>>

\* the page is left: the effect's cleanup sets alive to false
LeaveBackendDetails ==
    /\ bdetail # Null
    /\ Get(bdetail).mounted
    /\ bdetail' = Some([Get(bdetail) EXCEPT !.mounted = FALSE])
    /\ UNCHANGED <<link, hero>>
    /\ UNCHANGED <<viewVars, loaderVars, detailVars>>

\* the backend answers the request of call c and the page's effect resumes
BackendDetailsResponse(c, resp) ==
    /\ fetchPluginSettle(c, resp)
    /\ bdetail' =
          IF bdetail # Null /\ Get(bdetail).mounted /\ Get(bdetail).call = c.n
          THEN Some(afterFetchPlugin(Get(bdetail),
                                     IF resp.kind = "ok" THEN Some(resp.body) ELSE Null))
          ELSE bdetail
    /\ UNCHANGED <<link, hero>>
    /\ UNCHANGED <<viewVars, detailVars>>

NextBackendDetail ==
    \/ MountPluginsBackend
    \/ UnmountPlugins
    \/ \E c \in calls : \E resp \in ListResponses : fetchPluginsResponse(c, resp)
    \/ \E fromState \in NavigationStates : OpenBackendDetails(fromState)
    \/ \E fromState \in NavigationStates : RerouteBackendDetails(fromState)
    \/ LeaveBackendDetails
    \/ \E c \in calls : \E resp \in DetailResponses(c.arg) : BackendDetailsResponse(c, resp)

SpecBackendDetail == InitLoader /\ [][NextBackendDetail]_vars

\* what a panel of the page shows
backendPanel(pg, r) ==
    {x \in {"loading", "error", "nothing found", "content"} :
        \/ /\ x = "loading"
           /\ pg.loading[r]
           /\ r \in {"releases", "commits", "gallery"} => pg.val[r] = Null
        \/ x = "error" /\ pg.err[r] # Null /\ ~pg.loading[r]
        \/ /\ x = "nothing found"
           /\ ~pg.loading[r] /\ pg.err[r] = Null
           /\ IF r = "readme" THEN pg.val[r] = Some("")
              ELSE IF r = "latest" THEN pg.val[r] = Null
              ELSE pg.val[r] = Null \/ pg.val[r] = Some(<<>>)
        \/ /\ x = "content"
           /\ pg.val[r] # Null
           /\ Get(pg.val[r]) # "" /\ Get(pg.val[r]) # <<>>
           /\ r = "readme" => ~pg.loading[r] /\ pg.err[r] = Null}

(***************************************************************************)
(* C14 as claimed. In the backend design, when the per-plugin request of   *)
(* the mounted detail page is answered with a non-success status or fails  *)
(* in transport, every one of the six panels ends with its error message   *)
(* set and showing, and none blank or in its "nothing found" state.        *)
(***************************************************************************)
C14_FailedDetailRequestShowsErrors ==
    [][\A c \in calls : \A resp \in DetailResponses(c.arg) :
        (/\ bdetail # Null
         /\ Get(bdetail).mounted
         /\ Get(bdetail).call = c.n
         /\ resp.kind \in {"status", "network"}
         /\ BackendDetailsResponse(c, resp))
            => \A r \in Panels :
                  /\ Get(bdetail').err[r] # Null
                  /\ backendPanel(Get(bdetail'), r) = {"error"}]_vars

(***************************************************************************)
(* C19 as claimed. When the detail page is opened with no navigation       *)
(* state, the plugin is loaded all the same: after the first render its    *)
(* panels are loading, or every panel has a value, or some panel shows an  *)
(* error.                                                                  *)
(***************************************************************************)
C19_BareOwnerNameStillLoads ==
    [][OpenBackendDetails(Null)
          => \/ \A r \in Panels : Get(bdetail').loading[r]
             \/ \A r \in Panels \ {"latest"} : Get(bdetail').val[r] # Null
             \/ \E r \in Panels : "error" \in backendPanel(Get(bdetail'), r)]_vars

(***************************************************************************)
(* The list page and the detail page behind one router                     *)
(***************************************************************************)
\* the loader calls and the visits of the detail page in one behaviour
MaxRoutedCalls == 2
MaxRoutedVisits == 1

\* both routes of the one <Routes>: showing one page unmounts the other, and
\* the requests of an unmounted page stay in flight
NextEitherPage ==
    \/ nCalls < MaxRoutedCalls /\ MountPluginsBackend
    \/ UnmountPlugins
    \/ \E c \in calls : \E resp \in ListResponses : fetchPluginsResponse(c, resp)
    \/ \E key \in Keys : nVisits < MaxRoutedVisits /\ MountDetails(key)
    \/ UnmountDetails
    \/ \E q \in dreqs : \E resp \in Responses(q.res, q.phase) : Respond(q, resp)

SpecEitherPage == InitLoader /\ [][NextEitherPage]_vars

(***************************************************************************)
(* C13 as claimed. When the response of a fetch effect that was torn down  *)
(* arrives, on the list page and on the detail page, no component state    *)
(* changes and no cache is written: the detail page and its caches, the    *)
(* list page, the loader's CACHE and lastFetch stay as they were.          *)
(***************************************************************************)
C13_DeadResponsesChangeNothing ==
    [][/\ \A c \in calls : \A resp \in ListResponses :
            (~alive(c) /\ fetchPluginsResponse(c, resp))
                => page' = page /\ CACHE' = CACHE /\ lastFetch' = lastFetch
       /\ \A q \in dreqs : \A resp \in Responses(q.res, q.phase) :
            (~q.alive /\ Respond(q, resp)) => dpage' = dpage /\ dcache' = dcache]_vars

(***************************************************************************)
(* One visit of the detail page with several tab selections; the requests  *)
(* of the sidebar stay in flight                                           *)
(***************************************************************************)
MaxReselections == 2

\* the latest-release and the contributors request of a visit
MaxSidebarRequests == 2

NextTabs ==
    \/ \E key \in Keys : MountWithin(key, MaxVisits)
    \/ UnmountWithin(MaxSidebarRequests + MaxStale)
    \/ \E t \in Tabs : SelectTabWithin(t, MaxReselections)
    \/ \E q \in dreqs : \E resp \in Responses(q.res, q.phase) :
          q.res \in LazyResources \cup {"repo"} /\ Respond(q, resp)

SpecTabs == InitDetail /\ [][NextTabs]_vars
\* the requests for resource r that an effect starts in a step
Started(r) ==
    {n \in dreqs' :
        /\ n.res = r
        /\ n.phase = 1
        /\ \A q \in dreqs : ~(q.id = n.id /\ q.res = n.res /\ q.phase = n.phase)}

C12_FailedTabRetriesLoadedTabDoesNot ==
    [][\A r \in LazyResources :
        SelectTabWithin(LazyTab[r], MaxReselections) =>
            /\ (dpage.val[r] = Null /\ dpage.err[r] # Null) =>
                  /\ Cardinality(Started(r)) = 1
                  /\ \A n \in Started(r) : n.alive /\ n.key = dpage.key
                  /\ dpage'.err[r] = Null
                  /\ dpage'.loading[r]
            /\ dpage.val[r] # Null =>
                  /\ Started(r) = {}
                  /\ dpage'.val[r] = dpage.val[r]
                  /\ dpage'.loading[r] = dpage.loading[r]]_vars

C12_Witness ==
    /\ dpage.mounted
    /\ dpage.tab = "readme"
    /\ nTabs = 2
    /\ dpage.val.readme = Null
    /\ dpage.loading.readme
    /\ dpage.err.readme = Null
    /\ \E q \in dreqs : q.res = "readme" /\ q.alive /\ q.retry /\ q.phase = 1
\* the page of the release listing that "?per_page=1" asks for, of a
\* repository whose releases are b
ListedPage(b) == SubSeq(b, 1, IF Len(b) < PerPage THEN Len(b) ELSE PerPage)

(***************************************************************************)
(* C21 as claimed. When the release listing that follows a 404 of the      *)
(* latest-release endpoint arrives for the displayed page, the latest      *)
(* release becomes the first non-draft release of the repository, whatever *)
(* number of drafts precede it, and null only if the repository has no     *)
(* non-draft release.                                                      *)
(***************************************************************************)
C21_FallbackFindsFirstNonDraftOfRepository ==
    [][\A q \in dreqs : \A b \in ReleaseLists :
        (/\ q.res = "latest" /\ q.phase = 2 /\ q.alive
         /\ Respond(q, [kind |-> "ok", body |-> ListedPage(b)]))
            => /\ dpage'.val.latest = firstNonDraft(b)
               /\ dcache'.latest[q.key] = Some(firstNonDraft(b))]_vars

(***************************************************************************)
(* The direct design's loader over three calls, each candidate's requests  *)
(* either succeeding or failing in transport                               *)
(***************************************************************************)
MaxExpiryCalls == 3

NextExpiry ==
    \/ Tick
    \/ UnmountPlugins
    \/ MountDirectWithin(MaxExpiryCalls)
    \/ \E c \in calls : \E resp \in SearchResponses : searchResponse(c, resp)
    \/ \E c \in calls : \E fate \in {"ok", "manifest-network"} : itemStep(c, fate)

SpecExpiry == InitLoader /\ [][NextExpiry]_vars

(***************************************************************************)
(* C22 as claimed. A fetchPlugins call returns the cached array only if a  *)
(* list fetch that succeeded was made less than CACHE_DURATION before it:  *)
(* when five minutes have passed since the last successful fetch, the call *)
(* issues a request, also after a fetch that failed in between.            *)
(***************************************************************************)
C22_ExpiredCacheIsNeverServed ==
    [][(MountDirectWithin(MaxExpiryCalls) /\ cacheValid(now)) => recentLoads # {}]_vars
(***************************************************************************)
(* C23 as claimed. After a list fetch over the network succeeded, the      *)
(* cached collection is the collection that fetch returned: changed        *)
(* records are cached with their new values and records that upstream no   *)
(* longer returns are gone.                                                *)
(***************************************************************************)
C23_RefetchReplacesTheCache ==
    (/\ lastReturn # Null
     /\ Get(lastReturn).network
     /\ ~Get(lastReturn).threw
     /\ Get(lastReturn).value # Null)
        => CACHE = Get(Get(lastReturn).value)
\* the fields of the detail page that one record fills
RecordPanels == Panels \ {"latest"}

(***************************************************************************)
(* C24. In the backend design the README, releases, gallery, contributors  *)
(* and commits of the detail page are all unset or are the fields of one   *)
(* loaded plugin record, and the latest release is the first of the held   *)
(* releases, null exactly when the releases are unset or empty.            *)
(***************************************************************************)
C24_PanelsComeFromOneRecord ==
    IF bdetail = Null THEN TRUE
    ELSE LET val == Get(bdetail).val
         IN  /\ \/ \A r \in RecordPanels : val[r] = Null
                \/ \E plugin \in LoaderPlugins :
                      \A r \in RecordPanels : val[r] = Some(detailsOf(plugin)[r])
             /\ val.latest = (IF val.releases = Null \/ Get(val.releases) = <<>>
                              THEN Null ELSE Some(Get(val.releases)[1]))

C24_Witness ==
    /\ bdetail # Null
    /\ Get(bdetail).mounted
    /\ Get(bdetail).val.readme = Some("md")
    /\ Get(bdetail).val.releases = Some(<<"v2", "v1">>)
    /\ Get(bdetail).val.latest = Some("v2")
    /\ Get(bdetail).val.commits = Some(<<"commit">>)
    /\ \A r \in Panels : ~Get(bdetail).loading[r]
(***************************************************************************)
(* C25. The arrival of a response starts no request of an effect: a        *)
(* request for a resource and key is started only by a visit of the page   *)
(* or by the selection of a tab, so the commits request is started at most *)
(* once per visit of the changelog tab.                                    *)
(***************************************************************************)
C25_ResponsesStartNoRequest ==
    [][\A q \in dreqs : \A resp \in Responses(q.res, q.phase) :
          Respond(q, resp) => \A r \in Resources : Started(r) = {}]_vars
C27_DerivingLeavesTheInputAlone ==
    [][(\/ Derive
        \/ \E v \in SearchInputs : onSearchChange(v)
        \/ \E v \in SortInputs : onSortChange(v)) =>
          /\ vPlugins' = vPlugins
          /\ \A v \in Versions :
                Get(vOut')[v].sorted \in Reorderings(Get(vOut')[v].filtered)]_vars

\* the filtered result is the given array itself and sorting reorders it
C27_Witness ==
    /\ vOut # Null
    /\ vPlugins # Null
    /\ Len(Get(vPlugins)) > 1
    /\ \A v \in Versions :
          /\ Derived(v).filtered = Get(vPlugins)
          /\ Derived(v).sorted # Get(vPlugins)
(***************************************************************************)
(* The list page of the direct design when every request is answered: a    *)
(* fetch settles, with a response or with a network error, so a call in    *)
(* flight takes its next step                                              *)
(***************************************************************************)
LoaderStep ==
    \/ \E c \in calls : \E resp \in SearchResponses : searchResponse(c, resp)
    \/ \E c \in calls : \E fate \in Fates : itemStep(c, fate)

NextListPageFair ==
    \/ UnmountPlugins
    \/ MountPluginsDirect
    \/ LoaderStep

SpecListPageFair ==
    InitLoader /\ [][NextListPageFair]_vars /\ WF_vars(LoaderStep)

(***************************************************************************)
(* C28. A mounted list page whose loader call terminates leaves the        *)
(* loading state and, while it stays mounted, never returns to it; once    *)
(* out of loading it shows the error view or the list view, and the error  *)
(* view whenever an error string is set.                                   *)
(***************************************************************************)
C28_ListPageLeavesLoadingForGood ==
    /\ (page.mounted /\ page.loading) ~> (~page.mounted \/ ~page.loading)
    /\ [][(page.mounted /\ ~page.loading /\ page'.mounted) => ~page'.loading]_vars
    /\ [](page.mounted /\ ~page.loading
            => /\ pageView(page) \in {"error", "list"}
               /\ page.error # Null => pageView(page) = "error"
               /\ (page.error = Null /\ page.plugins # Null) => pageView(page) = "list")

\* the call of the mounted page threw and the page shows the error view
C28_Witness ==
    /\ page.mounted
    /\ ~page.loading
    /\ page.error # Null
    /\ page.outcome \in {"network", "badjson", "missing"}
    /\ pageView(page) = "error"
(***************************************************************************)
(* C29. In the direct design a call whose search succeeded and whose       *)
(* candidates all loaded returns a list, also when total_count is larger   *)
(* than the number of returned items: it handles exactly the returned      *)
(* items and does not fail on an item that is not there.                   *)
(***************************************************************************)
C29_CountBeyondThePageStillReturnsAList ==
    (/\ lastReturn # Null
     /\ Get(lastReturn).fanout.searched
     /\ Get(lastReturn).fanout.total > Len(Get(lastReturn).fanout.items)
     /\ \A i \in DOMAIN Get(lastReturn).fanout.fates :
           Get(lastReturn).fanout.fates[i] = "ok")
        => /\ ~Get(lastReturn).threw
           /\ Get(lastReturn).value # Null
           /\ Len(Get(Get(lastReturn).value)) = Len(Get(lastReturn).fanout.items)

(***************************************************************************)
(* C30. When the raw-file request that follows a README pointer answers    *)
(* with a non-success status, no README is cached or shown and the README  *)
(* error is set.                                                           *)
(***************************************************************************)
C30_FailedReadmeDownloadIsNotStored ==
    [][\A q \in dreqs :
          (/\ q.res = "readme" /\ q.phase = 2 /\ q.alive
           /\ Respond(q, [kind |-> "status", body |-> "Not Found"]))
              => /\ dcache'.readme[q.key] = Null
                 /\ dpage'.val.readme = Null
                 /\ dpage'.err.readme # Null]_vars

====
